---------------------------- MODULE Spec2Model ----------------------------
(***************************************************************************)
(* MarkDown-For-What: a Figma plugin that writes Markdown into a document. *)
(* Two plugin programs are modelled:                                       *)
(*   - the text-replacement plugin, figma-markdown-sync/code.ts            *)
(*     (processTokens, updateTextNodeWithMarkdown, its onmessage handler); *)
(*   - the frame-creating plugin, unnamed/part_000 (loadFont,              *)
(*     getOrCreateTextStyle, flattenTokens, applyInlineStyles,             *)
(*     createMarkdownFrame, its onmessage handler).                        *)
(* Text is a sequence of one-character strings, so that lengths and        *)
(* offsets are those of the host text API.  Font sizes are held in 1/64 of *)
(* a point, so that the multipliers 2, 1.5 and 1.25 stay exact.            *)
(***************************************************************************)
EXTENDS Integers, Sequences, FiniteSets, TLC

VARIABLES
    \* --- flattening and range application on one token list
    fTokens,      \* the token list handed to the flattener
    fContext,     \* the context handed to the flattener
    fPc,          \* "start" | "flattened" | "processed" | "inlineDone" | "syncDone"
                  \* | "fontDone" | "off"
    fSegs,        \* the value flattenTokens returned (part_000)
    fNode,        \* the text node the range loop writes to
    fInstr,       \* the range instructions the loop emitted, in order
    fBase,        \* the base style name given to applyInlineStyles
    fFont,        \* a font request, and what resolving it gave
    fCalls,       \* the flattener calls made so far: input and what each gave
    fStrip,       \* a Markdown source, and what front-matter stripping gave
    inv,          \* the updateTextNodeWithMarkdown calls in flight, by handler
    uiPanel,      \* ui.ts: the import button, currentFiles, reads and messages
    \* --- code.ts, module state
    segments,     \* `let segments: StyledSegment[]` (code.ts:29)
    \* --- the host and the UI, as the text-replacement plugin sees them
    currentPage,  \* figma.currentPage: its nodes, in document order
    selection,    \* figma.currentPage.selection: node indices
    available,    \* the fonts figma.loadFontAsync can load
    loadedFonts,  \* the fonts loaded so far
    uiFiles,      \* currentFiles of the UI: the files of each request
    \* --- code.ts, figma.ui.onmessage
    hPc,          \* "idle" | "running" | "done"
    tasks,        \* the (file, node) pairs the loops have yet to process
    updatedCount,
    posted,       \* the status messages posted for the current request
    requests,     \* requests received so far
    attempted,    \* history: the calls of updateTextNodeWithMarkdown made
                  \* for the current request, with their outcome
    prev,         \* history: page and attempted at the end of the request before
    \* --- part_000: the document's text styles and figma.ui.onmessage
    styles,       \* figma.getLocalTextStyles(), in registry order
    frPc,         \* "idle" | "preload" | "loop" | "styles" | "build" | "done"
                  \* | "rejected"
    frFile,       \* index of the file the loop is at
    frFound,      \* allTextNodes: the nodes found at the start of the batch
    calls,        \* the getOrCreateTextStyle calls of the current Promise.all
    orphans,      \* calls still running after their Promise.all rejected
    nextId,       \* the id the next created node gets
    frBlocks,     \* the blocks createMarkdownFrame has still to build
    frFrame       \* the id of the frame it is building

flatVars == <<fTokens, fContext, fPc, fSegs, fNode, fInstr, fBase, fFont>>
callVars == <<fCalls, fStrip, inv, uiPanel>>
hostVars == <<currentPage, selection, available, loadedFonts, uiFiles>>
syncVars == <<hPc, tasks, updatedCount, posted, requests, attempted, prev>>
frameVars == <<styles, frPc, frFile, frFound, calls, orphans, nextId, frBlocks,
              frFrame>>
vars == <<fTokens, fContext, fPc, fSegs, fNode, fInstr, fBase, fFont, fCalls,
          fStrip, inv, uiPanel, segments,
          currentPage, selection, available, loadedFonts, uiFiles,
          hPc, tasks, updatedCount, posted, requests, attempted, prev,
          styles, frPc, frFile, frFound, calls, orphans, nextId, frBlocks, frFrame>>

(***************************************************************************)
(* Text                                                                    *)
(***************************************************************************)
NL == "\n"

RECURSIVE Concat(_)
\* segments.map(s => s.text).join('')
Concat(segs) ==
    IF segs = << >> THEN << >> ELSE Head(segs).text \o Concat(Tail(segs))

RECURSIVE Repeat(_, _)
\* String.prototype.repeat
Repeat(s, n) == IF n <= 0 THEN << >> ELSE s \o Repeat(s, n - 1)

\* the bullet literal of code.ts:57 as the file stores it: three code units
\* (written u1, u2, u3 here) and a space
Bullet == <<"u1", "u2", "u3", " ">>

(***************************************************************************)
(* Fonts and sizes                                                         *)
(***************************************************************************)
Font(family, style) == [family |-> family, style |-> style]

InterRegular == Font("Inter", "Regular")
RobotoMono   == Font("Roboto Mono", "Regular")

\* figma.mixed, as a font name and as a font size
MixedFont == Font("figma.mixed", "figma.mixed")
MixedSize == -1

\* n points, in 1/64 of a point
Pt(n) == n * 64

(***************************************************************************)
(* Tokens of the Markdown lexer (marked).  One record shape for all kinds: *)
(*   type, text, hasText ('text' in token), tokens, hasTokens, depth       *)
(*   (headings), rawNl (list items: raw ends with a newline).              *)
(***************************************************************************)
Tok(type, text, hasText, tokens, hasTokens, depth, rawNl) ==
    [type |-> type, text |-> text, hasText |-> hasText, tokens |-> tokens,
     hasTokens |-> hasTokens, depth |-> depth, rawNl |-> rawNl]

TText(t)        == Tok("text", t, TRUE, << >>, FALSE, 0, FALSE)
TTextOf(ts)     == Tok("text", << >>, TRUE, ts, TRUE, 0, FALSE)
TCodespan(t)    == Tok("codespan", t, TRUE, << >>, FALSE, 0, FALSE)
TLink(t)        == Tok("link", t, TRUE, << >>, FALSE, 0, FALSE)
TEscape(t)      == Tok("escape", t, TRUE, << >>, FALSE, 0, FALSE)
TBr             == Tok("br", << >>, FALSE, << >>, FALSE, 0, FALSE)
TSpace          == Tok("space", << >>, FALSE, << >>, FALSE, 0, FALSE)
TStrong(ts)     == Tok("strong", << >>, TRUE, ts, TRUE, 0, FALSE)
TEm(ts)         == Tok("em", << >>, TRUE, ts, TRUE, 0, FALSE)
THeading(d, ts) == Tok("heading", << >>, TRUE, ts, TRUE, d, FALSE)
TParagraph(ts)  == Tok("paragraph", << >>, TRUE, ts, TRUE, 0, FALSE)
TCode(t)        == Tok("code", t, TRUE, << >>, FALSE, 0, FALSE)
TList(items)    == Tok("list", << >>, FALSE, items, TRUE, 0, FALSE)
TListItem(ts, nl) == Tok("list_item", << >>, TRUE, ts, TRUE, 0, nl)
TQuote(t)       == Tok("blockquote", t, TRUE, << >>, FALSE, 0, FALSE)
THr             == Tok("hr", << >>, FALSE, << >>, FALSE, 0, FALSE)


(***************************************************************************)
(* Style context threaded through the recursion                            *)
(***************************************************************************)
Ctx(b, i, c, h, l) ==
    [bold |-> b, italic |-> i, code |-> c, headerLevel |-> h, listLevel |-> l]

\* { bold: false, italic: false, code: false, headerLevel: 0, listLevel: 0 }
RootContext == Ctx(FALSE, FALSE, FALSE, 0, 0)

\* { ...context, bold: true }
StrongContext(context) == [context EXCEPT !.bold = TRUE]

\* a child context built afresh, dropping what was inherited
EmContextReset(context) == [context EXCEPT !.italic = TRUE, !.bold = FALSE]

\* { ...context, italic: true }
EmContext(context) == [context EXCEPT !.italic = TRUE]

\* { ...context, headerLevel: hToken.depth }
HeadingContext(context, depth) == [context EXCEPT !.headerLevel = depth]

\* { ...context, listLevel: context.listLevel + 1 }
ListContext(context) == [context EXCEPT !.listLevel = context.listLevel + 1]

\* { text, ...context }
Seg(text, context) ==
    [text |-> text, bold |-> context.bold, italic |-> context.italic,
     code |-> context.code, headerLevel |-> context.headerLevel,
     listLevel |-> context.listLevel]

\* { text, ...context, code: true }
CodeSeg(text, context) == [Seg(text, context) EXCEPT !.code = TRUE]

(***************************************************************************)
(* code.ts: processTokens appends to the module-level list `segments`.     *)
(* ProcessTokens(tokens, context, acc) is the value of `segments` after    *)
(* the call, acc being its value before.                                   *)
(***************************************************************************)
RECURSIVE ProcessTokens(_, _, _)
ProcessTokens(tokens, context, acc) ==
    IF tokens = << >> THEN acc
    ELSE
      LET token == Head(tokens)
          after ==
            CASE token.type = "heading" ->
                   Append(ProcessTokens(token.tokens,
                                        HeadingContext(context, token.depth), acc),
                          Seg(<<NL>>, context))
              [] token.type = "paragraph" ->
                   Append(ProcessTokens(token.tokens, context, acc),
                          Seg(<<NL, NL>>, context))
              [] token.type = "list" ->
                   ProcessTokens(token.tokens, ListContext(context), acc)
              [] token.type = "list_item" ->
                   LET bullet == Seg(Repeat(<<" ", " ">>, context.listLevel - 1)
                                       \o Bullet, context)
                       inner  == ProcessTokens(token.tokens, context,
                                               Append(acc, bullet))
                   IN  IF ~token.rawNl THEN Append(inner, Seg(<<NL>>, context))
                       ELSE inner
              [] token.type = "strong" ->
                   ProcessTokens(token.tokens, StrongContext(context), acc)
              [] token.type = "em" ->
                   ProcessTokens(token.tokens, EmContext(context), acc)
              [] token.type = "codespan" ->
                   Append(acc, CodeSeg(token.text, context))
              [] token.type = "code" ->
                   Append(acc, CodeSeg(token.text \o <<NL, NL>>, context))
              [] token.type = "text" ->
                   IF token.hasTokens
                   THEN ProcessTokens(token.tokens, context, acc)
                   ELSE Append(acc, Seg(token.text, context))
              [] token.type = "space" -> acc
              [] OTHER ->
                   IF token.hasText THEN Append(acc, Seg(token.text, context))
                   ELSE acc
      IN  ProcessTokens(Tail(tokens), context, after)

(***************************************************************************)
(* part_000: flattenTokens returns a new list; its context and segments    *)
(* carry bold, italic and code only.                                       *)
(***************************************************************************)
InlineContext(context) ==
    [bold |-> context.bold, italic |-> context.italic, code |-> context.code]

\* { text, ...context } and { text, ...context, code: true } in flattenTokens
InlineSeg(text, context) ==
    [text |-> text, bold |-> context.bold, italic |-> context.italic,
     code |-> context.code]

InlineCodeSeg(text, context) == [InlineSeg(text, context) EXCEPT !.code = TRUE]

RECURSIVE FlattenTokens(_, _)
FlattenTokens(tokens, context) ==
    IF tokens = << >> THEN << >>
    ELSE
      LET token == Head(tokens)
          emitted ==
            CASE token.type = "strong" ->
                   FlattenTokens(token.tokens, StrongContext(context))
              [] token.type = "em" ->
                   FlattenTokens(token.tokens, EmContext(context))
              [] token.type = "codespan" ->
                   <<InlineCodeSeg(token.text, context)>>
              [] token.type = "text" ->
                   IF token.hasTokens THEN FlattenTokens(token.tokens, context)
                   ELSE <<InlineSeg(token.text, context)>>
              [] token.type = "link" -> <<InlineSeg(token.text, context)>>
              [] OTHER ->
                   IF token.hasText THEN <<InlineSeg(token.text, context)>>
                   ELSE << >>
      IN  emitted \o FlattenTokens(Tail(tokens), context)


(***************************************************************************)
(* The host's text node (TextNode of the plugin API): its characters and   *)
(* one font and one size per character; eFont and eSize are the style of a *)
(* node that holds no character.                                           *)
(***************************************************************************)
TextNode(name, type, font, size) ==
    [name |-> name, type |-> type, characters |-> << >>, fonts |-> << >>,
     sizes |-> << >>, eFont |-> font, eSize |-> size]

AllSame(seq) == \A i \in 1..Len(seq) : seq[i] = seq[1]

\* node.fontName
FontNameOf(node) ==
    IF Len(node.characters) = 0 THEN node.eFont
    ELSE IF AllSame(node.fonts) THEN node.fonts[1] ELSE MixedFont

\* node.fontSize
FontSizeOf(node) ==
    IF Len(node.characters) = 0 THEN node.eSize
    ELSE IF AllSame(node.sizes) THEN node.sizes[1] ELSE MixedSize

\* the fonts a node uses; all of them must be loaded to write its characters
FontsOf(node) ==
    IF Len(node.characters) = 0 THEN {node.eFont}
    ELSE {node.fonts[i] : i \in 1..Len(node.fonts)}

\* node.characters = text: the new text takes the style of the node's first
\* character (host behaviour)
SetCharacters(node, text) ==
    LET font == IF Len(node.characters) = 0 THEN node.eFont ELSE node.fonts[1]
        size == IF Len(node.characters) = 0 THEN node.eSize ELSE node.sizes[1]
    IN  [node EXCEPT !.characters = text,
                     !.fonts = [i \in 1..Len(text) |-> font],
                     !.sizes = [i \in 1..Len(text) |-> size],
                     !.eFont = font, !.eSize = size]

\* node.setRangeFontName(start, end, font), offsets counted from 0
SetRangeFontName(node, start, end, font) ==
    [node EXCEPT !.fonts = [i \in 1..Len(node.fonts) |->
                              IF start < i /\ i <= end THEN font ELSE node.fonts[i]]]

\* node.setRangeFontSize(start, end, size)
SetRangeFontSize(node, start, end, size) ==
    [node EXCEPT !.sizes = [i \in 1..Len(node.sizes) |->
                              IF start < i /\ i <= end THEN size ELSE node.sizes[i]]]

(***************************************************************************)
(* code.ts: loadFontWithFallback, and steps 5 to 7 of                      *)
(* updateTextNodeWithMarkdown.  avail is the set of fonts the host can     *)
(* load (figma.loadFontAsync rejects for any other), loaded the set of     *)
(* fonts loaded so far.                                                    *)
(***************************************************************************)
NullFont == Font("null", "null")

\* returns the font, or null when the load throws
LoadFontWithFallback(family, style, avail) ==
    IF Font(family, style) \in avail THEN Font(family, style) ELSE NullFont

\* a || b on fonts
OrElse(a, b) == IF a = NullFont THEN b ELSE a

\* step 5: the base font (code.ts:126-135)
BaseFontOf(node) ==
    IF FontNameOf(node) # MixedFont THEN FontNameOf(node)
    ELSE IF Len(node.characters) > 0 THEN node.fonts[1]
    ELSE InterRegular

\* code.ts:138-144: the five variants, each with its fallback
VariantFonts(baseFont, avail) ==
    LET regularFont == OrElse(LoadFontWithFallback(baseFont.family, "Regular", avail),
                              baseFont)
        boldFont    == OrElse(LoadFontWithFallback(baseFont.family, "Bold", avail),
                              regularFont)
        italicFont  == OrElse(LoadFontWithFallback(baseFont.family, "Italic", avail),
                              regularFont)
        boldItalicFont ==
            OrElse(LoadFontWithFallback(baseFont.family, "Bold Italic", avail), boldFont)
        codeFont    == OrElse(LoadFontWithFallback("Roboto Mono", "Regular", avail),
                              regularFont)
    IN  [regular |-> regularFont, bold |-> boldFont, italic |-> italicFont,
         boldItalic |-> boldItalicFont, code |-> codeFont]

VariantSet(v) == {v.regular, v.bold, v.italic, v.boldItalic, v.code}

\* code.ts:148-152: figma.loadFontAsync on each variant, with no catch
VariantLoadsThrow(v, avail) == ~(VariantSet(v) \subseteq avail)

\* a font asked for, before any call has resolved it
FontRequest(font) ==
    [fn |-> "none", asked |-> font, threw |-> FALSE, font |-> NullFont]

\* a choice that tests the bold flag before the code flag
TargetFontBoldFirst(segment, v) ==
    IF segment.bold /\ segment.italic THEN v.boldItalic
    ELSE IF segment.bold THEN v.bold
    ELSE IF segment.code THEN v.code
    ELSE IF segment.italic THEN v.italic
    ELSE v.regular

\* code.ts:165-175: the font of a segment
TargetFont(segment, v) ==
    IF segment.code THEN v.code
    ELSE IF segment.bold /\ segment.italic THEN v.boldItalic
    ELSE IF segment.bold THEN v.bold
    ELSE IF segment.italic THEN v.italic
    ELSE v.regular

\* code.ts:184-187: the base size, read from the node at each segment
BaseSizeOf(node) ==
    IF FontSizeOf(node) # MixedSize THEN FontSizeOf(node) ELSE Pt(16)

\* a table that knows three heading levels and sizes deeper ones as body text
SegmentSizeThreeLevels(segment, baseSize) ==
    IF segment.headerLevel \in 1..3
    THEN (baseSize * (IF segment.headerLevel = 1 THEN 8
                      ELSE IF segment.headerLevel = 2 THEN 6 ELSE 5)) \div 4
    ELSE baseSize

\* code.ts:189-195: base size times 2, 1.5 or 1.25
SegmentSize(segment, baseSize) ==
    IF segment.headerLevel > 0
    THEN (baseSize * (IF segment.headerLevel = 1 THEN 8
                      ELSE IF segment.headerLevel = 2 THEN 6 ELSE 5)) \div 4
    ELSE baseSize

Instr(start, end, font, size) ==
    [start |-> start, end |-> end, font |-> font, size |-> size]

\* a cursor that steps one unit too far
NextIndexOffByOne(currentIndex, segment) == currentIndex + Len(segment.text) + 1

\* the cursor after a segment (code.ts:161, 197)
NextIndex(currentIndex, segment) == currentIndex + Len(segment.text)

\* step 7 (code.ts:158-198): st = [node, instr, threw]; a range that reaches
\* past the node's text makes the host throw
RECURSIVE ApplyStyles(_, _, _, _)
ApplyStyles(st, segs, v, currentIndex) ==
    IF segs = << >> \/ st.threw THEN st
    ELSE
      LET segment == Head(segs)
          start == currentIndex
          end == NextIndex(currentIndex, segment)
          font == TargetFont(segment, v)
          n1 == SetRangeFontName(st.node, start, end, font)
          size == SegmentSize(segment, BaseSizeOf(n1))
          n2 == SetRangeFontSize(n1, start, end, size)
          st2 == IF end > start
                 THEN IF end > Len(st.node.characters)
                      THEN [st EXCEPT !.threw = TRUE]
                      ELSE [st EXCEPT !.node = n2,
                                      !.instr = Append(st.instr,
                                                       Instr(start, end, font, size))]
                 ELSE st
      IN  ApplyStyles(st2, Tail(segs), v, end)


(***************************************************************************)
(* Front matter, and the lexer as an external collaborator                 *)
(***************************************************************************)
Fence == <<"-", "-", "-">>

\* pat occurs in text at position k or further on: a search that is not held
\* to one position
FoundFrom(text, k, pat) ==
    \E j \in k..Len(text) :
       j + Len(pat) - 1 <= Len(text) /\ SubSeq(text, j, j + Len(pat) - 1) = pat

\* pat occurs in text at position k
StartsAt(text, k, pat) ==
    k + Len(pat) - 1 <= Len(text) /\ SubSeq(text, k, k + Len(pat) - 1) = pat

\* markdown.replace(/^---[\s\S]*?---\n/, ''): the match starts at offset 0 and
\* ends with the first "---\n" found after the opening fence
StripFrontMatter(markdown) ==
    LET closes == {k \in 4..Len(markdown) : StartsAt(markdown, k, Fence \o <<NL>>)}
    IN  IF StartsAt(markdown, 1, Fence) /\ closes # {}
        THEN LET k == CHOOSE c \in closes : \A d \in closes : c <= d
             IN  SubSeq(markdown, k + 4, Len(markdown))
        ELSE markdown

\* Markdown sources used as file contents
MdPara  == <<"a", "b">>
MdHead  == <<"#", " ", "T", NL, NL, "b">>
\* a backquote is written BQ
BQ == "bq"
MdCode  == <<BQ, "c", BQ, " ", "*", "d", "*">>
MdFront == Fence \o <<NL, "k", NL>> \o Fence \o <<NL>> \o MdPara
\* "# Title\n\nHello **world**"
MdTitle ==
    <<"#", " ", "T", "i", "t", "l", "e", NL, NL,
      "H", "e", "l", "l", "o", " ", "*", "*", "w", "o", "r", "l", "d", "*", "*">>

\* marked.lexer on the sources above
Lexer(markdown) ==
    CASE markdown = MdPara -> <<TParagraph(<<TText(<<"a", "b">>)>>)>>
      [] markdown = MdHead ->
           <<THeading(1, <<TText(<<"T">>)>>), TParagraph(<<TText(<<"b">>)>>)>>
      [] markdown = MdCode ->
           <<TParagraph(<<TCodespan(<<"c">>), TText(<<" ">>),
                          TEm(<<TText(<<"d">>)>>)>>)>>
      [] markdown = MdTitle ->
           <<THeading(1, <<TText(<<"T", "i", "t", "l", "e">>)>>),
             TParagraph(<<TText(<<"H", "e", "l", "l", "o", " ">>),
                          TStrong(<<TText(<<"w", "o", "r", "l", "d">>)>>)>>)>>
      [] OTHER -> << >>

(***************************************************************************)
(* code.ts: updateTextNodeWithMarkdown(node, markdown), as one call.       *)
(* The result holds the node, the loaded fonts and `segments` after the    *)
(* call, the instructions applied, and whether the call threw.             *)
(***************************************************************************)
UpdateFromTokens(node, tokens, avail, loaded) ==
    LET segs     == ProcessTokens(tokens, RootContext, << >>)
        fullText == Concat(segs)
        baseFont == BaseFontOf(node)
        v        == VariantFonts(baseFont, avail)
        \* fonts loaded by the calls of lines 138-152 that returned
        tried    == {Font(baseFont.family, st) :
                        st \in {"Regular", "Bold", "Italic", "Bold Italic"}}
                    \cup {RobotoMono} \cup VariantSet(v)
        loaded2  == loaded \cup (tried \cap avail)
        failed   == [threw |-> TRUE, node |-> node, loaded |-> loaded2,
                     segments |-> segs, instr |-> << >>]
    IN  IF VariantLoadsThrow(v, avail) THEN failed
        ELSE IF ~(FontsOf(node) \subseteq loaded2) THEN failed
        ELSE LET st == ApplyStyles([node |-> SetCharacters(node, fullText),
                                    instr |-> << >>, threw |-> FALSE],
                                   segs, v, 0)
             IN  [threw |-> st.threw, node |-> st.node, loaded |-> loaded2,
                  segments |-> segs, instr |-> st.instr]

\* steps 1 and 2 (code.ts:108-114), then the rest
UpdateTextNode(node, markdown, avail, loaded) ==
    LET cleanMarkdown == StripFrontMatter(markdown)
        tokens == Lexer(cleanMarkdown)
    IN  UpdateFromTokens(node, tokens, avail, loaded)


(***************************************************************************)
(* part_000: constants, loadFont, applyInlineStyles                        *)
(***************************************************************************)
H1 == "Markdown/H1"
H2 == "Markdown/H2"
H3 == "Markdown/H3"
BODY == "Markdown/Body"
CODE == "Markdown/Code"
LIST == "Markdown/List"
QUOTE == "Markdown/Quote"

\* Object.keys(DEFAULT_STYLES), in insertion order
StyleKeys == <<H1, H2, H3, BODY, CODE, LIST, QUOTE>>
STYLE_NAMES == {StyleKeys[i] : i \in 1..Len(StyleKeys)}

\* lineHeight is held in percent (config.lineHeight * 100)
StyleConfig(family, style, size, lineHeight) ==
    [family |-> family, style |-> style, size |-> size, lineHeight |-> lineHeight]

DEFAULT_STYLES(name) ==
    CASE name = H1    -> StyleConfig("Inter", "Bold", Pt(32), 120)
      [] name = H2    -> StyleConfig("Inter", "Bold", Pt(24), 130)
      [] name = H3    -> StyleConfig("Inter", "Bold", Pt(20), 140)
      [] name = BODY  -> StyleConfig("Inter", "Regular", Pt(16), 150)
      [] name = CODE  -> StyleConfig("Roboto Mono", "Regular", Pt(14), 140)
      [] name = LIST  -> StyleConfig("Inter", "Regular", Pt(16), 150)
      [] name = QUOTE -> StyleConfig("Inter", "Italic", Pt(16), 150)

\* loadFont(family, style): the font it returns, or a throw when the fallback
\* load of Inter Regular is rejected too
LoadFont(family, style, avail) ==
    IF Font(family, style) \in avail
    THEN [threw |-> FALSE, font |-> Font(family, style)]
    ELSE IF InterRegular \in avail
    THEN [threw |-> FALSE, font |-> InterRegular]
    ELSE [threw |-> TRUE, font |-> NullFont]

\* baseConfig.style.includes('Bold')
IsBaseBold(baseConfig) == baseConfig.style \in {"Bold", "Bold Italic"}

\* part_000:225-244: the font of a segment
InlineFont(segment, v, isBaseBold) ==
    IF segment.code THEN v.code
    ELSE LET effectiveBold == segment.bold \/ isBaseBold
             effectiveItalic == segment.italic
         IN  IF effectiveBold /\ effectiveItalic THEN v.boldItalic
             ELSE IF effectiveBold THEN v.bold
             ELSE IF effectiveItalic THEN v.italic
             ELSE v.regular

\* the cursor after a segment (part_000:222, 251)
InlineNextIndex(currentIndex, segment) == currentIndex + Len(segment.text)

\* part_000:219-252
RECURSIVE InlineStyleLoop(_, _, _, _, _)
InlineStyleLoop(st, segs, v, isBaseBold, currentIndex) ==
    IF segs = << >> \/ st.threw THEN st
    ELSE
      LET segment == Head(segs)
          start == currentIndex
          end == InlineNextIndex(currentIndex, segment)
          font == InlineFont(segment, v, isBaseBold)
          st2 == IF end > start
                 THEN IF end > Len(st.node.characters)
                      THEN [st EXCEPT !.threw = TRUE]
                      ELSE [st EXCEPT
                              !.node = SetRangeFontName(st.node, start, end, font),
                              !.instr = Append(st.instr,
                                   Instr(start, end, font, st.node.sizes[end]))]
                 ELSE st
      IN  InlineStyleLoop(st2, Tail(segs), v, isBaseBold, end)

\* applyInlineStyles(node, tokens, baseStyleName), as one call
ApplyInlineStyles(node, tokens, baseStyleName, avail, loaded) ==
    LET segs == FlattenTokens(tokens, InlineContext(RootContext))
        fullText == Concat(segs)
        baseConfig == DEFAULT_STYLES(baseStyleName)
        lr == LoadFont(baseConfig.family, "Regular", avail)
        lb == LoadFont(baseConfig.family, "Bold", avail)
        li == LoadFont(baseConfig.family, "Italic", avail)
        lbi == LoadFont(baseConfig.family, "Bold Italic", avail)
        lc == LoadFont("Roboto Mono", "Regular", avail)
        v == [regular |-> lr.font, bold |-> lb.font, italic |-> li.font,
              boldItalic |-> lbi.font, code |-> lc.font]
        unchanged == [threw |-> FALSE, node |-> node, loaded |-> loaded,
                      instr |-> << >>]
    IN  IF tokens = << >> THEN unchanged
        ELSE IF ~(FontsOf(node) \subseteq loaded)
        THEN [unchanged EXCEPT !.threw = TRUE]
        ELSE IF lr.threw \/ lb.threw \/ li.threw \/ lbi.threw \/ lc.threw
        THEN [unchanged EXCEPT !.threw = TRUE,
                               !.node = SetCharacters(node, fullText)]
        ELSE LET st == InlineStyleLoop([node |-> SetCharacters(node, fullText),
                                        instr |-> << >>, threw |-> FALSE],
                                       segs, v, IsBaseBold(baseConfig), 0)
             IN  [threw |-> st.threw, node |-> st.node,
                  loaded |-> loaded \cup VariantSet(v), instr |-> st.instr]


(***************************************************************************)
(* part_000: the blocks of a document and the style of each                *)
(***************************************************************************)
Block(type, content, level, tokens, hasTokens) ==
    [type |-> type, content |-> content, level |-> level, tokens |-> tokens,
     hasTokens |-> hasTokens]

\* listToken.items.forEach(item => blocks.push(...))
RECURSIVE ItemBlocks(_)
ItemBlocks(items) ==
    IF items = << >> THEN << >>
    ELSE <<Block("list", Head(items).text, 0, Head(items).tokens, TRUE)>>
         \o ItemBlocks(Tail(items))

\* parseMarkdownToBlocks, on the lexer's tokens
RECURSIVE BlocksOf(_)
BlocksOf(tokens) ==
    IF tokens = << >> THEN << >>
    ELSE LET token == Head(tokens)
             here ==
               CASE token.type = "heading" ->
                      <<Block("heading", token.text, token.depth, token.tokens, TRUE)>>
                 [] token.type = "paragraph" ->
                      <<Block("paragraph", token.text, 0, token.tokens, TRUE)>>
                 [] token.type = "code" ->
                      <<Block("code", token.text, 0, << >>, FALSE)>>
                 [] token.type = "blockquote" ->
                      <<Block("quote", token.text, 0, << >>, FALSE)>>
                 [] token.type = "list" -> ItemBlocks(token.tokens)
                 [] token.type = "hr" ->
                      <<Block("separator", << >>, 0, << >>, FALSE)>>
                 [] OTHER -> << >>
         IN  here \o BlocksOf(Tail(tokens))

ParseMarkdownToBlocks(markdown) == BlocksOf(Lexer(markdown))

\* part_000:293-312: the style of a block's text
BlockStyleName(block) ==
    CASE block.type = "heading" ->
           IF block.level = 1 THEN H1 ELSE IF block.level = 2 THEN H2 ELSE H3
      [] block.type = "quote" -> QUOTE
      [] block.type = "list" -> LIST
      [] block.type = "code" -> CODE
      [] OTHER -> BODY

(***************************************************************************)
(* Bounded inputs: token trees, contexts, fonts, start nodes               *)
(***************************************************************************)
MaxNest == 2

Families == {"Inter", "Roboto Mono", "Georgia"}
FontStyles == {"Regular", "Bold", "Italic", "Bold Italic"}
AllFonts == {Font(f, st) : f \in Families, st \in FontStyles}

Leaves ==
    {TText(<< >>), TText(<<"a">>), TCodespan(<<"c">>), TLink(<<"l">>), TBr}

RECURSIVE Inline(_)
\* inline tokens nested at most d deep
Inline(d) ==
    IF d = 0 THEN Leaves
    ELSE LET sub == Inline(d - 1)
         IN  sub \cup {TStrong(<<x>>) : x \in sub} \cup {TEm(<<x>>) : x \in sub}
                 \cup {TStrong(<<x, TText(<<"a">>)>>) : x \in sub}
                 \cup {TEm(<<TText(<<"a">>), x>>) : x \in sub}
                 \cup {TTextOf(<<x>>) : x \in sub}

InlineInputs ==
    {<<x>> : x \in Inline(MaxNest)} \cup {<<TText(<<"b">>), x>> : x \in Inline(MaxNest)}

Blocks ==
    LET sub == Inline(MaxNest - 1)
    IN  {THeading(d, <<x>>) : d \in 1..6, x \in sub}
        \cup {TParagraph(<<x>>) : x \in sub}
        \cup {TList(<<TListItem(<<TTextOf(<<x>>)>>, nl)>>) :
                  x \in sub, nl \in BOOLEAN}
        \cup {TList(<<TListItem(<<TTextOf(<<TText(<<"a">>)>>),
                                  TList(<<TListItem(<<TTextOf(<<x>>)>>, FALSE)>>)>>,
                                TRUE)>>) : x \in Leaves}
        \cup {TCode(<<"c">>), TSpace, TQuote(<<"q">>), THr}

BlockInputs ==
    {<<b>> : b \in Blocks} \cup {<<b, TParagraph(<<TText(<<"a">>)>>)>> : b \in Blocks}

Contexts == {Ctx(b, i, c, 0, 0) : b \in BOOLEAN, i \in BOOLEAN, c \in BOOLEAN}

StartNodes ==
    {TextNode(<<"n">>, "TEXT", InterRegular, Pt(16)),
     TextNode(<<"n">>, "TEXT", Font("Georgia", "Bold"), Pt(12))}

\* figma.createText() with textStyleId set to the style of that name
StyledText(styleName) ==
    LET cfg == DEFAULT_STYLES(styleName)
    IN  TextNode(<< >>, "TEXT", Font(cfg.family, cfg.style), cfg.size)

\* a source before stripping has been applied to it
StripRequest(markdown) ==
    [input |-> markdown, done |-> FALSE, fn |-> "none", output |-> << >>]

\* no flattener call made, nothing stripped, no update in flight
\* ui.ts: whether the import button is disabled, the length of currentFiles,
\* the handleFiles calls waiting at their Promise.all (each with the number
\* of valid files its reads will give, -1 for a read that fails), the files
\* dropped so far, the requests sent, those the plugin has yet to answer, and
\* the status messages on their way to the panel
Panel(disabled, files, reading, drops, sent, pending, replies) ==
    [disabled |-> disabled, files |-> files, reading |-> reading, drops |-> drops,
     sent |-> sent, pending |-> pending, replies |-> replies]

\* the panel as the script leaves it when it has run: nothing read, nothing sent
PanelIdle == Panel(FALSE, 0, << >>, 0, 0, 0, 0)

CallIdle ==
    /\ fCalls = << >>
    /\ fStrip = StripRequest(<< >>)
    /\ inv = << >>
    /\ uiPanel = PanelIdle

(***************************************************************************)
(* Flattening and range application on one input                           *)
(***************************************************************************)
FlatInit ==
    /\ fTokens \in InlineInputs \cup BlockInputs \cup {Lexer(MdTitle)}
    /\ fContext \in Contexts
    /\ fNode \in StartNodes
    /\ fPc = "start"
    /\ fSegs = << >>
    /\ fInstr = << >>
    /\ fBase = ""
    /\ fFont = FontRequest(InterRegular)
    /\ CallIdle
    /\ segments = << >>
    /\ currentPage = << >> /\ selection = << >>
    /\ available = AllFonts /\ loadedFonts = {}
    /\ uiFiles = << >>
    /\ hPc = "idle" /\ tasks = << >> /\ updatedCount = 0 /\ posted = << >>
    /\ requests = 0 /\ attempted = << >>
    /\ prev = [page |-> << >>, attempted |-> << >>]
    /\ styles = << >> /\ frPc = "off" /\ frFile = 0 /\ frFound = << >>
    /\ calls = << >> /\ orphans = {} /\ nextId = 1
    /\ frBlocks = << >> /\ frFrame = 0

\* flattenTokens(tokens, context)
FlattenCall ==
    /\ fPc = "start"
    /\ fTokens \in InlineInputs
    /\ fSegs' = FlattenTokens(fTokens, InlineContext(fContext))
    /\ fPc' = "flattened"
    /\ UNCHANGED <<callVars, fTokens, fContext, fNode, fInstr, fBase, fFont, segments,
                   hostVars, syncVars, frameVars>>

\* applyInlineStyles(node, tokens, baseStyleName) on a newly created text
InlineStylesCall ==
    /\ fPc = "start"
    /\ fTokens \in InlineInputs
    /\ \E base \in {H1, BODY, QUOTE} :
         LET r == ApplyInlineStyles(StyledText(base), fTokens, base,
                                    AllFonts, AllFonts)
         IN  /\ fBase' = base
             /\ fNode' = r.node
             /\ fInstr' = r.instr
             /\ fSegs' = FlattenTokens(fTokens, InlineContext(RootContext))
    /\ fPc' = "inlineDone"
    /\ UNCHANGED <<callVars, fTokens, fContext, fFont, segments, hostVars, syncVars,
                   frameVars>>

\* processTokens(tokens, context): appends to `segments`
ProcessCall ==
    /\ fPc = "start"
    /\ segments' = ProcessTokens(fTokens, fContext, segments)
    /\ fPc' = "processed"
    /\ UNCHANGED <<callVars, fTokens, fContext, fSegs, fNode, fInstr, fBase, fFont,
                   hostVars, syncVars, frameVars>>

\* steps 3 to 7 of updateTextNodeWithMarkdown on the lexer's output
UpdateCall ==
    /\ fPc = "start"
    /\ LET r == UpdateFromTokens(fNode, fTokens, AllFonts, AllFonts)
       IN  /\ segments' = r.segments
           /\ fNode' = r.node
           /\ fInstr' = r.instr
    /\ fPc' = "syncDone"
    /\ UNCHANGED <<callVars, fTokens, fContext, fSegs, fBase, fFont, hostVars, syncVars,
                   frameVars>>

\* part_000:291-355: the text created for the first block of the document,
\* with the style its type and level select
BlockStyleCall ==
    /\ fPc = "start"
    /\ fTokens \in BlockInputs
    /\ BlocksOf(fTokens) # << >>
    /\ fBase' = BlockStyleName(BlocksOf(fTokens)[1])
    /\ fNode' = StyledText(fBase')
    /\ fPc' = "blockStyled"
    /\ UNCHANGED <<callVars, fTokens, fContext, fSegs, fInstr, fFont, segments,
                   hostVars, syncVars, frameVars>>

FlatNext ==
    FlattenCall \/ InlineStylesCall \/ ProcessCall \/ UpdateCall \/ BlockStyleCall

SpecFlatten == FlatInit /\ [][FlatNext]_vars

(***************************************************************************)
(* Font resolution on one request                                          *)
(***************************************************************************)
\* the fonts whose loading is decided either way
FontPool ==
    {InterRegular, Font("Inter", "Bold"), Font("Georgia", "Regular"),
     Font("Georgia", "Bold"), RobotoMono}

FontInit ==
    /\ fTokens = << >> /\ fContext = RootContext /\ fPc = "start"
    /\ fSegs = << >> /\ fInstr = << >> /\ fBase = ""
    /\ fNode = TextNode(<< >>, "TEXT", InterRegular, Pt(16))
    /\ fFont \in {FontRequest(f) : f \in AllFonts}
    /\ CallIdle
    /\ segments = << >>
    /\ currentPage = << >> /\ selection = << >>
    /\ available \in SUBSET FontPool
    /\ loadedFonts = {}
    /\ uiFiles = << >>
    /\ hPc = "off" /\ tasks = << >> /\ updatedCount = 0 /\ posted = << >>
    /\ requests = 0 /\ attempted = << >>
    /\ prev = [page |-> << >>, attempted |-> << >>]
    /\ styles = << >> /\ frPc = "off" /\ frFile = 0 /\ frFound = << >>
    /\ calls = << >> /\ orphans = {} /\ nextId = 1
    /\ frBlocks = << >> /\ frFrame = 0

FontDone(fn, threw, font) ==
    /\ fFont' = [fFont EXCEPT !.fn = fn, !.threw = threw, !.font = font]
    /\ fPc' = "fontDone"
    /\ UNCHANGED <<callVars, fTokens, fContext, fSegs, fNode, fInstr, fBase, segments,
                   hostVars, syncVars, frameVars>>

\* part_000: loadFont(family, style)
LoadFontCall ==
    /\ fPc = "start"
    /\ LET r == LoadFont(fFont.asked.family, fFont.asked.style, available)
       IN  FontDone("loadFont", r.threw, r.font)

\* code.ts: loadFontWithFallback(family, style)
LoadFontWithFallbackCall ==
    /\ fPc = "start"
    /\ FontDone("loadFontWithFallback", FALSE,
                LoadFontWithFallback(fFont.asked.family, fFont.asked.style,
                                     available))

\* code.ts:137-152 on a node in the font asked for: the regular variant
VariantsCall ==
    /\ fPc = "start"
    /\ LET v == VariantFonts(fFont.asked, available)
       IN  FontDone("variants", VariantLoadsThrow(v, available), v.regular)

FontNext == LoadFontCall \/ LoadFontWithFallbackCall \/ VariantsCall

SpecFonts == FontInit /\ [][FontNext]_vars


(***************************************************************************)
(* Properties of flattening and range application                          *)
(***************************************************************************)
\* instr tiles [0, len): starts at 0, each range starts where the previous
\* one ended, the last ends at len, no range is empty
Tiles(instr, len) ==
    /\ (Len(instr) = 0) <=> (len = 0)
    /\ Len(instr) > 0 => instr[1].start = 0 /\ instr[Len(instr)].end = len
    /\ \A i \in 1..Len(instr) : instr[i].start < instr[i].end
    /\ \A i \in 1..(Len(instr) - 1) : instr[i + 1].start = instr[i].end

\* the segments that hold text, in order
NonEmpty(segs) == SelectSeq(segs, LAMBDA sg : Len(sg.text) > 0)

\* one range per non-empty segment, as long as its text
OnePerSegment(instr, segs) ==
    /\ Len(instr) = Len(NonEmpty(segs))
    /\ \A i \in 1..Len(instr) :
          instr[i].end - instr[i].start = Len(NonEmpty(segs)[i].text)

\* C1: the ranges emitted by either range loop partition [0, len(fullText))
\* exactly, in ascending order, one per non-empty segment, none for an empty one
C1_RangesTile ==
    /\ fPc = "syncDone" =>
          /\ fNode.characters = Concat(segments)
          /\ Tiles(fInstr, Len(Concat(segments)))
          /\ OnePerSegment(fInstr, segments)
    /\ fPc = "inlineDone" =>
          /\ fNode.characters = Concat(fSegs)
          /\ Tiles(fInstr, Len(Concat(fSegs)))
          /\ OnePerSegment(fInstr, fSegs)

\* a run whose segments include an empty one between ranges
C1_Witness ==
    /\ fPc = "syncDone"
    /\ Len(fInstr) >= 3
    /\ \E i \in 1..Len(segments) : Len(segments[i].text) = 0

RECURSIVE Ancestry(_, _, _)
\* for each segment the flatteners emit for tokens, in order: whether it lies
\* inside a strong token and inside an em token
Ancestry(tokens, s, e) ==
    IF tokens = << >> THEN << >>
    ELSE
      LET t == Head(tokens)
          here == [strong |-> s, em |-> e]
          own ==
            CASE t.type = "strong" -> Ancestry(t.tokens, TRUE, e)
              [] t.type = "em" -> Ancestry(t.tokens, s, TRUE)
              [] t.type \in {"heading", "paragraph"} ->
                   Append(Ancestry(t.tokens, s, e), here)
              [] t.type = "list" -> Ancestry(t.tokens, s, e)
              [] t.type = "list_item" ->
                   <<here>> \o Ancestry(t.tokens, s, e)
                            \o (IF t.rawNl THEN << >> ELSE <<here>>)
              [] t.type = "text" ->
                   IF t.hasTokens THEN Ancestry(t.tokens, s, e) ELSE <<here>>
              [] t.type = "space" -> << >>
              [] OTHER -> IF t.hasText THEN <<here>> ELSE << >>
      IN  own \o Ancestry(Tail(tokens), s, e)

Monotone(segs, anc, context) ==
    /\ Len(segs) = Len(anc)
    /\ \A i \in 1..Len(segs) :
          /\ anc[i].strong => segs[i].bold
          /\ anc[i].em => segs[i].italic
          /\ context.bold => segs[i].bold
          /\ context.italic => segs[i].italic
          /\ context.code => segs[i].code

\* C10: a segment emitted from inside a strong token is bold, one from inside
\* an em token is italic, one inside both is both, and a flag that is true in
\* the context handed in is true in every segment
C10_ContextMonotone ==
    /\ fPc = "flattened" => Monotone(fSegs, Ancestry(fTokens, FALSE, FALSE), fContext)
    /\ fPc = "processed" => Monotone(segments, Ancestry(fTokens, FALSE, FALSE), fContext)

\* a segment nested in both a strong and an em token, with both flags set
C10_Witness ==
    /\ fPc = "flattened"
    /\ ~fContext.bold /\ ~fContext.italic
    /\ \E i \in 1..Len(fSegs) :
          /\ Ancestry(fTokens, FALSE, FALSE)[i] = [strong |-> TRUE, em |-> TRUE]
          /\ fSegs[i].bold /\ fSegs[i].italic


\* the variant of a family that the flags name, all fonts being loadable
VariantByFlags(family, code, bold, italic) ==
    IF code THEN Font("Roboto Mono", "Regular")
    ELSE IF bold /\ italic THEN Font(family, "Bold Italic")
    ELSE IF bold THEN Font(family, "Bold")
    ELSE IF italic THEN Font(family, "Italic")
    ELSE Font(family, "Regular")

Quarters(level) ==
    IF level = 0 THEN 4 ELSE IF level = 1 THEN 8 ELSE IF level = 2 THEN 6 ELSE 5

SizeOver(node, start, end, size) ==
    \A i \in (start + 1)..end : node.sizes[i] = size

\* the characters of node at offsets start..end-1 all have this font
FontOver(node, start, end, font) ==
    \A i \in (start + 1)..end : node.fonts[i] = font

\* the import of "# Title\n\nHello **world**" into a node set in Inter Regular
\* at the Body size of 16 pt has ended
TitleImported ==
    /\ fPc = "syncDone"
    /\ fTokens = Lexer(MdTitle)
    /\ fNode.eFont = InterRegular /\ fNode.eSize = Pt(16)

\* the text written is "Title\nHello world\n\n"
TitleText ==
    fNode.characters =
       <<"T", "i", "t", "l", "e", NL,
         "H", "e", "l", "l", "o", " ", "w", "o", "r", "l", "d", NL, NL>>

\* "Hello " is regular and "world" bold, both at the body size
TitleBody ==
    /\ Len(fNode.characters) = 19
    /\ FontOver(fNode, 6, 12, InterRegular) /\ SizeOver(fNode, 6, 12, Pt(16))
    /\ FontOver(fNode, 12, 17, Font("Inter", "Bold"))
    /\ SizeOver(fNode, 12, 17, Pt(16))

\* the import of the title example writes the text of the example and styles
\* its paragraph as the example says, and sizes "Title" at 32 pt
TitleExampleButBold ==
    TitleImported =>
       TitleText /\ TitleBody /\ SizeOver(fNode, 0, 5, Pt(32))

\* C14: for "# Title\n\nHello **world**" with H1 = 32 and Body = 16 the text
\* written is "Title\nHello world\n\n", "Title" has size 32 and a bold font,
\* "world" the bold variant at body size and "Hello " the regular variant at
\* body size
C14_TitleExample ==
    TitleImported =>
       /\ TitleText /\ TitleBody
       /\ SizeOver(fNode, 0, 5, Pt(32))
       /\ FontOver(fNode, 0, 5, Font("Inter", "Bold"))

\* C18: within one import into one node every segment is sized from the same
\* base, the node's font size before the import: body text after a heading
\* gets that size, a heading after other text that size times its factor,
\* whatever the node's size was
C18_OneBaseSize ==
    fPc = "syncDone" =>
       \A i \in 1..Len(fInstr) :
          fInstr[i].size * 4 = fNode.eSize * Quarters(NonEmpty(segments)[i].headerLevel)

\* the same for a node whose size is the 16 pt the loop falls back to
OneBaseSizeAtDefault ==
    (fPc = "syncDone" /\ fNode.eSize = Pt(16)) =>
       \A i \in 1..Len(fInstr) :
          fInstr[i].size * 4 = fNode.eSize * Quarters(NonEmpty(segments)[i].headerLevel)

(***************************************************************************)
(* Front-matter stripping on one source (code.ts:110-111, part_000:261-262) *)
(***************************************************************************)
MaxPieces == 6

\* what the sources are made of
Pieces == {Fence, <<NL>>, <<"a">>, <<"-">>}

RECURSIVE Join(_)
Join(ps) == IF ps = << >> THEN << >> ELSE Head(ps) \o Join(Tail(ps))

StripInputs ==
    {Join(ps) : ps \in UNION {[1..k -> Pieces] : k \in 0..MaxPieces}}

StripInit ==
    /\ fTokens = << >> /\ fContext = RootContext /\ fPc = "off"
    /\ fSegs = << >> /\ fInstr = << >> /\ fBase = ""
    /\ fFont = FontRequest(InterRegular)
    /\ fNode = TextNode(<< >>, "TEXT", InterRegular, Pt(16))
    /\ fCalls = << >> /\ inv = << >> /\ uiPanel = PanelIdle
    /\ fStrip \in {StripRequest(markdown) : markdown \in StripInputs}
    /\ segments = << >>
    /\ currentPage = << >> /\ selection = << >>
    /\ available = AllFonts /\ loadedFonts = {}
    /\ uiFiles = << >>
    /\ hPc = "off" /\ tasks = << >> /\ updatedCount = 0 /\ posted = << >>
    /\ requests = 0 /\ attempted = << >>
    /\ prev = [page |-> << >>, attempted |-> << >>]
    /\ styles = << >> /\ frPc = "off" /\ frFile = 0 /\ frFound = << >>
    /\ calls = << >> /\ orphans = {} /\ nextId = 1
    /\ frBlocks = << >> /\ frFrame = 0

Stripped(fn) ==
    /\ ~fStrip.done
    /\ fStrip' = [fStrip EXCEPT !.done = TRUE, !.fn = fn,
                                !.output = StripFrontMatter(fStrip.input)]
    /\ UNCHANGED <<flatVars, fCalls, inv, uiPanel, segments, hostVars, syncVars, frameVars>>

\* code.ts:110-111
StripInUpdate == Stripped("updateTextNodeWithMarkdown")

\* part_000:261-262
StripInCreate == Stripped("createMarkdownFrame")

StripNext == StripInUpdate \/ StripInCreate

SpecStrip == StripInit /\ [][StripNext]_vars

\* text begins with pat
BeginsWith(text, pat) ==
    Len(pat) <= Len(text) /\ SubSeq(text, 1, Len(pat)) = pat

\* the n characters of text that end at position m
EndingAt(text, m, n) == SubSeq(text, m - n + 1, m)

\* C15: stripping removes text only from an input that starts at offset 0 with
\* a --- fence; any other input comes out as it went in, a fenced block further
\* on included; what is removed is the prefix up to and including the first
\* closing ---\n, and nothing else
C15_StripOnlyLeading ==
    fStrip.done =>
       LET input == fStrip.input
           output == fStrip.output
           n == Len(input) - Len(output)
       IN  /\ n >= 0
           /\ SubSeq(input, n + 1, Len(input)) = output
           /\ ~BeginsWith(input, Fence) => output = input
           /\ n > 0 =>
                /\ BeginsWith(input, Fence)
                /\ n >= 7
                /\ EndingAt(input, n, 4) = Fence \o <<NL>>
                /\ \A m \in 7..(n - 1) : EndingAt(input, m, 4) # Fence \o <<NL>>

\* a source with an opening fence and two closing ones, stripped up to the
\* first closing fence: the second one is what remains
C15_Witness ==
    /\ fStrip.done
    /\ fStrip.input = Fence \o <<NL>> \o Fence \o <<NL>> \o Fence \o <<NL>>
    /\ fStrip.output = Fence \o <<NL>>

\* a fenced block that does not start the source stays
MidDocumentKept ==
    /\ fStrip.done
    /\ fStrip.input = <<"a">> \o Fence \o <<NL>> \o Fence \o <<NL>>
    /\ fStrip.output = fStrip.input

(***************************************************************************)
(* Repeated calls of the two flatteners.  flattenTokens builds its list in  *)
(* a local; processTokens appends to the module-level `segments`, which     *)
(* updateTextNodeWithMarkdown empties before its one top-level call.        *)
(***************************************************************************)
MaxCalls == 3

\* a list carried over from the call before
KeepSegments(old) == old

\* segments = [] (code.ts:117)
ResetSegments(old) == << >>

CallLeaves ==
    {TText(<<"a">>), TStrong(<<TCodespan(<<"c">>)>>), TEm(<<TText(<<"b">>)>>)}

CallInputs ==
    {<<x>> : x \in CallLeaves} \cup {<<x, y>> : x \in CallLeaves, y \in CallLeaves}

CallContexts == {RootContext, StrongContext(RootContext)}

\* one call of a flattener: what it was given and the segments it gave
CallRecord(fn, tokens, context, result) ==
    [fn |-> fn, tokens |-> tokens, context |-> context, result |-> result]

CallInit ==
    /\ fTokens = << >> /\ fContext = RootContext /\ fPc = "off"
    /\ fSegs = << >> /\ fInstr = << >> /\ fBase = ""
    /\ fFont = FontRequest(InterRegular)
    /\ fNode = TextNode(<< >>, "TEXT", InterRegular, Pt(16))
    /\ CallIdle
    /\ segments = << >>
    /\ currentPage = << >> /\ selection = << >>
    /\ available = AllFonts /\ loadedFonts = {}
    /\ uiFiles = << >>
    /\ hPc = "off" /\ tasks = << >> /\ updatedCount = 0 /\ posted = << >>
    /\ requests = 0 /\ attempted = << >>
    /\ prev = [page |-> << >>, attempted |-> << >>]
    /\ styles = << >> /\ frPc = "off" /\ frFile = 0 /\ frFound = << >>
    /\ calls = << >> /\ orphans = {} /\ nextId = 1
    /\ frBlocks = << >> /\ frFrame = 0

\* part_000: one more call of flattenTokens(tokens, context)
FlattenAgain ==
    /\ Len(fCalls) < MaxCalls
    /\ \E tokens \in CallInputs, context \in CallContexts :
         fCalls' = Append(fCalls,
                          CallRecord("flattenTokens", tokens, InlineContext(context),
                                     FlattenTokens(tokens, InlineContext(context))))
    /\ UNCHANGED <<flatVars, fStrip, inv, uiPanel, segments, hostVars, syncVars, frameVars>>

\* code.ts:117-118: one more reset and top-level call of processTokens
ProcessAgain ==
    /\ Len(fCalls) < MaxCalls
    /\ \E tokens \in CallInputs :
         /\ segments' = ProcessTokens(tokens, RootContext, ResetSegments(segments))
         /\ fCalls' = Append(fCalls,
                             CallRecord("processTokens", tokens, RootContext, segments'))
    /\ UNCHANGED <<flatVars, fStrip, inv, uiPanel, hostVars, syncVars, frameVars>>

CallNext == FlattenAgain \/ ProcessAgain

SpecCalls == CallInit /\ [][CallNext]_vars

\* the same function, given the same tokens and context
SameInput(a, b) ==
    a.fn = b.fn /\ a.tokens = b.tokens /\ a.context = b.context

LowerOf(c) ==
    CASE c = "M" -> "m" [] c = "D" -> "d" [] c = "A" -> "a" [] c = "R" -> "r"
      [] c = "K" -> "k" [] c = "O" -> "o" [] c = "W" -> "w" [] c = "N" -> "n"
      [] c = "T" -> "t" [] c = "X" -> "x" [] OTHER -> c

Lower(name) == [i \in 1..Len(name) |-> LowerOf(name[i])]

Suffixes ==
    {<<".", "m", "d">>, <<".", "m", "a", "r", "k", "d", "o", "w", "n">>,
     <<".", "t", "x", "t">>}

EndsWith(name, suffix) ==
    /\ Len(name) >= Len(suffix)
    /\ SubSeq(Lower(name), Len(name) - Len(suffix) + 1, Len(name)) = suffix

\* file.name.replace(/\.(md|markdown|txt)$/i, '')
NameNoExt(name) ==
    IF \E sfx \in Suffixes : EndsWith(name, sfx)
    THEN LET sfx == CHOOSE x \in Suffixes : EndsWith(name, x)
         IN  SubSeq(name, 1, Len(name) - Len(sfx))
    ELSE name

RECURSIVE Ascending(_)
\* the members of a set of numbers, in ascending order
Ascending(S) ==
    IF S = {} THEN << >>
    ELSE LET m == CHOOSE x \in S : \A y \in S : x <= y
         IN  <<m>> \o Ascending(S \ {m})

\* the selection taken as it is, whatever the nodes' types
SelectedNodesUnfiltered(page, sel) == sel

\* selection.filter(node => node.type === 'TEXT')
SelectedTextNodes(page, sel) == SelectSeq(sel, LAMBDA i : page[i].type = "TEXT")

\* figma.currentPage.findAll(n => n.type === 'TEXT')
AllTextNodes(page) == Ascending({i \in 1..Len(page) : page[i].type = "TEXT"})

\* a match on the stripped name only
NameMatchesStripped(nodeName, fileName) == nodeName = NameNoExt(fileName)

\* node.name === file.name || node.name === nameNoExt
NameMatches(nodeName, fileName) ==
    nodeName = fileName \/ nodeName = NameNoExt(fileName)

\* allTextNodes.filter(...) for one file
Targets(page, file) ==
    SelectSeq(AllTextNodes(page), LAMBDA i : NameMatches(page[i].name, file.name))

Task(f, n) == [file |-> f, node |-> n]

RECURSIVE NameTasks(_, _, _)
\* scenario 2: for each file from the k-th on, in order, its targets in order
NameTasks(files, page, k) ==
    IF k > Len(files) THEN << >>
    ELSE LET targets == Targets(page, files[k])
         IN  [i \in 1..Len(targets) |-> Task(k, targets[i])]
             \o NameTasks(files, page, k + 1)

\* the calls of updateTextNodeWithMarkdown the two loops make, in order
TasksOf(files, page, sel) ==
    LET selectedTextNodes == SelectedTextNodes(page, sel)
    IN  IF Len(files) = 1 /\ Len(selectedTextNodes) > 0
        THEN [i \in 1..Len(selectedTextNodes) |-> Task(1, selectedTextNodes[i])]
        ELSE NameTasks(files, page, 1)

(***************************************************************************)
(* Status messages (figma.ui.postMessage)                                  *)
(***************************************************************************)
Status(message, count, error) ==
    [type |-> "status", message |-> message, count |-> count, error |-> error]

NoFilesStatus == Status("No files request received.", 0, TRUE)
NoMatchStatus == Status("No matching text layers found to update.", 0, TRUE)
UpdatedStatus(n) == Status("Successfully updated N text layer(s).", n, FALSE)

\* code.ts:256-268
FinalStatus(count) == IF count > 0 THEN UpdatedStatus(count) ELSE NoMatchStatus

\* the try/catch around one call (code.ts:222-227, 246-251): the count, and
\* the tasks left, after a call that threw or did not
CountAfter(count, threw) == IF threw THEN count ELSE count + 1

\* a catch that gives up on the rest of the batch
TasksAfterAbort(left, threw) == IF threw THEN << >> ELSE Tail(left)

TasksAfter(left, threw) == Tail(left)


(***************************************************************************)
(* The text-replacement plugin: bounded documents and requests             *)
(***************************************************************************)
MaxFiles == 2
NumNodes == 2
MaxRequests == 2

NameUsage    == <<"U", "s", "a", "g", "e">>
NameUsageMd  == NameUsage \o <<".", "m", "d">>
NameUsageMD  == NameUsage \o <<".", "M", "D">>
NameNotesTxt == <<"N", "o", "t", "e", "s", ".", "t", "x", "t">>

File(name, content) == [name |-> name, content |-> content]

CandidateFiles ==
    {File(NameUsageMd, MdHead), File(NameNotesTxt, MdFront),
     File(NameUsageMD, MdCode)}

Batches ==
    {b \in UNION {[1..n -> CandidateFiles] : n \in 0..MaxFiles} :
        \A i \in 1..Len(b) : \A j \in 1..Len(b) : i # j => b[i] # b[j]}

CandidateNodes ==
    {TextNode(NameUsage, "TEXT", InterRegular, Pt(16)),
     TextNode(NameUsage, "TEXT", Font("Georgia", "Bold"), Pt(12)),
     TextNode(NameNotesTxt, "TEXT", InterRegular, Pt(16)),
     TextNode(NameUsage, "FRAME", InterRegular, Pt(16))}

Pages == [1..NumNodes -> CandidateNodes]

\* every font can be loaded, or every font but those of the Georgia family
AvailChoices == {AllFonts, {f \in AllFonts : f.family # "Georgia"}}

FlatIdle ==
    /\ fTokens = << >> /\ fContext = RootContext /\ fPc = "off"
    /\ fSegs = << >> /\ fInstr = << >> /\ fBase = ""
    /\ fFont = FontRequest(InterRegular)
    /\ CallIdle
    /\ fNode = TextNode(<< >>, "TEXT", InterRegular, Pt(16))

SyncInit ==
    /\ FlatIdle
    /\ segments = << >>
    /\ currentPage \in Pages
    /\ selection \in {Ascending(S) : S \in SUBSET (1..NumNodes)}
    /\ available \in AvailChoices
    /\ loadedFonts = {}
    /\ uiFiles \in Batches
    /\ hPc = "idle" /\ tasks = << >> /\ updatedCount = 0 /\ posted = << >>
    /\ requests = 0 /\ attempted = << >>
    /\ prev = [page |-> << >>, attempted |-> << >>]
    /\ styles = << >> /\ frPc = "off" /\ frFile = 0 /\ frFound = << >>
    /\ calls = << >> /\ orphans = {} /\ nextId = 1
    /\ frBlocks = << >> /\ frFrame = 0

(***************************************************************************)
(* code.ts: figma.ui.onmessage for an import-markdown-batch message        *)
(***************************************************************************)
\* code.ts:204-215: the message arrives; an empty file list is answered at once
Receive ==
    /\ hPc \in {"idle", "done"}
    /\ requests < MaxRequests
    /\ requests' = requests + 1
    /\ prev' = [page |-> currentPage, attempted |-> attempted]
    /\ attempted' = << >>
    /\ updatedCount' = 0
    /\ IF Len(uiFiles) = 0
       THEN /\ posted' = <<NoFilesStatus>>
            /\ tasks' = << >>
            /\ hPc' = "done"
       ELSE /\ posted' = << >>
            /\ tasks' = TasksOf(uiFiles, currentPage, selection)
            /\ hPc' = "running"
    /\ UNCHANGED <<flatVars, callVars, segments, hostVars, frameVars>>

\* one iteration of either loop: try { await updateTextNodeWithMarkdown(...);
\* updatedCount++ } catch { console.error(...) }
RunTask ==
    /\ hPc = "running"
    /\ tasks # << >>
    /\ LET t == Head(tasks)
           r == UpdateTextNode(currentPage[t.node], uiFiles[t.file].content,
                               available, loadedFonts)
       IN  /\ currentPage' = [currentPage EXCEPT ![t.node] = r.node]
           /\ loadedFonts' = r.loaded
           /\ segments' = r.segments
           /\ updatedCount' = CountAfter(updatedCount, r.threw)
           /\ tasks' = TasksAfter(tasks, r.threw)
           /\ attempted' = Append(attempted,
                 [file |-> t.file, node |-> t.node, ok |-> ~r.threw])
    /\ UNCHANGED <<flatVars, callVars, selection, available, uiFiles, hPc, posted,
                   requests, prev, frameVars>>

\* code.ts:256-268: the status message
Finish ==
    /\ hPc = "running"
    /\ tasks = << >>
    /\ posted' = Append(posted, FinalStatus(updatedCount))
    /\ hPc' = "done"
    /\ UNCHANGED <<flatVars, callVars, segments, hostVars, tasks, updatedCount, requests,
                   attempted, prev, frameVars>>

SyncNext == Receive \/ RunTask \/ Finish

Spec == SyncInit /\ [][SyncNext]_vars

(***************************************************************************)
(* part_000: the document's text styles                                    *)
(* A style is a record; the registry is figma.getLocalTextStyles() in      *)
(* order, and a style object is named by its position, which never changes *)
(* because the plugin only appends.  lineHeight 0 stands for AUTO.         *)
(***************************************************************************)
TextStyle(name, fontName, fontSize, lineHeight) ==
    [name |-> name, fontName |-> fontName, fontSize |-> fontSize,
     lineHeight |-> lineHeight]

\* figma.createTextStyle(); style.name = name   (part_000:79-80)
NewTextStyle(name) == TextStyle(name, InterRegular, Pt(12), 0)

\* a lookup that never finds a style
FindStyleNone(registry, name) == 0

\* styles.find(s => s.name === name): the position of the first, 0 for none
FindStyle(registry, name) ==
    LET hits == {i \in 1..Len(registry) : registry[i].name = name}
    IN  IF hits = {} THEN 0 ELSE CHOOSE i \in hits : \A j \in hits : i <= j

\* part_000:75-81: the part of getOrCreateTextStyle before its first await
LookupOrCreate(registry, name) ==
    LET i == FindStyle(registry, name)
    IN  IF i = 0
        THEN [registry |-> Append(registry, NewTextStyle(name)),
              style |-> Len(registry) + 1]
        ELSE [registry |-> registry, style |-> i]

\* part_000:85-87: the host rejects a fontName that is not loaded
WriteStyle(registry, i, config, loaded) ==
    IF Font(config.family, config.style) \in loaded
    THEN [threw |-> FALSE,
          registry |-> [registry EXCEPT ![i] =
                           TextStyle(@.name, Font(config.family, config.style),
                                     config.size, config.lineHeight)]]
    ELSE [threw |-> TRUE, registry |-> registry]

\* getOrCreateTextStyle(name, config) run to its end without interleaving
GetOrCreateTextStyle(registry, name, avail, loaded) ==
    LET config == DEFAULT_STYLES(name)
        lc == LookupOrCreate(registry, name)
        lf == LoadFont(config.family, config.style, avail)
        loaded2 == IF lf.threw THEN loaded ELSE loaded \cup {lf.font}
        w == WriteStyle(lc.registry, lc.style, config, loaded2)
    IN  [threw |-> lf.threw \/ w.threw, registry |-> w.registry,
         style |-> lc.style, loaded |-> loaded2]

\* part_000:267: Object.keys(DEFAULT_STYLES).map(k => getOrCreateTextStyle(k, ..))
\* runs every call up to its first await, in key order
RECURSIVE StartCalls(_, _, _)
StartCalls(registry, k, acc) ==
    IF k > Len(StyleKeys) THEN [registry |-> registry, calls |-> acc]
    ELSE LET lc == LookupOrCreate(registry, StyleKeys[k])
         IN  StartCalls(lc.registry, k + 1,
                        Append(acc, [name |-> StyleKeys[k], style |-> lc.style,
                                     stage |-> "load"]))

ConfigFont(name) == Font(DEFAULT_STYLES(name).family, DEFAULT_STYLES(name).style)

(***************************************************************************)
(* part_000: blocks and the frame built from them                          *)
(***************************************************************************)
\* the bullet character and a space
FrameBullet == <<"bu", " ">>

\* part_000:319
BlockContent(block) ==
    IF block.type = "list" /\ block.content # << >>
    THEN FrameBullet \o block.content
    ELSE block.content

\* a child of the frame: its kind, its text style and its text node
Child(kind, styleName, node) == [kind |-> kind, style |-> styleName, node |-> node]

\* figma.createText() with textStyleId set to that style
TextOfStyle(style) == TextNode(<< >>, "TEXT", style.fontName, style.fontSize)

\* part_000:291-368: one iteration of the loop over the blocks; the result
\* holds the children of the frame, the registry, the loaded fonts and
\* whether a call threw
BuildBlock(children, registry, loaded, block, avail) ==
    LET styleName == BlockStyleName(block)
        content == BlockContent(block)
        g == GetOrCreateTextStyle(registry, styleName, avail, loaded)
        node == TextOfStyle(g.registry[g.style])
        st == [threw |-> FALSE, children |-> children, registry |-> registry,
               loaded |-> loaded]
        got == [st EXCEPT !.registry = g.registry, !.loaded = g.loaded]
    IN  IF block.type = "separator"
        THEN [st EXCEPT !.children =
                 Append(@, Child("RECTANGLE", "", TextNode(<< >>, "RECTANGLE",
                                                           InterRegular, Pt(12))))]
        ELSE IF block.type = "code" /\ RobotoMono \notin avail
        THEN [st EXCEPT !.threw = TRUE]
        ELSE IF g.threw
        THEN [got EXCEPT !.threw = TRUE]
        ELSE IF block.type = "code"
        THEN [got EXCEPT !.loaded = @ \cup {RobotoMono},
                         !.children = Append(@, Child("FRAME", CODE,
                                                SetCharacters(node, content)))]
        ELSE IF block.hasTokens /\ block.type # "list"
        THEN LET r == ApplyInlineStyles(node, block.tokens, styleName, avail,
                                        g.loaded)
             IN  [threw |-> r.threw, registry |-> g.registry, loaded |-> r.loaded,
                  children |-> IF r.threw THEN children
                               ELSE Append(children,
                                           Child("TEXT", styleName, r.node))]
        ELSE [got EXCEPT !.children = Append(@, Child("TEXT", styleName,
                             IF content # << >>
                             THEN SetCharacters(node, content) ELSE node))]

(***************************************************************************)
(* part_000: page nodes, createMarkdownFrame after its Promise.all         *)
(***************************************************************************)
PageNode(id, name, type, x, y, children) ==
    [id |-> id, name |-> name, type |-> type, x |-> x, y |-> y,
     children |-> children]

\* the position on the page of the node with that id, 0 when it has no parent
IndexOfId(page, id) ==
    LET hits == {i \in 1..Len(page) : page[i].id = id}
    IN  IF hits = {} THEN 0 ELSE CHOOSE i \in hits : TRUE

\* figma.currentPage.findAll(n => n.name.length > 0)   (part_000:391).  The
\* scan also meets the text nodes inside frames, which the host names after
\* their text; no file of the bounded inputs bears such a name, so the
\* children are left out of the list.
FindAllNamed(page) == SelectSeq(page, LAMBDA n : Len(n.name) > 0)

\* allTextNodes.find(n => n.name === file.name || n.name === nameNoExt): the
\* id of the first match, 0 for undefined
FindTarget(found, file) ==
    LET hits == {i \in 1..Len(found) : NameMatches(found[i].name, file.name)}
    IN  IF hits = {} THEN 0
        ELSE found[CHOOSE i \in hits : \A j \in hits : i <= j].id

\* the old element removed and the new frame put after the last child
PlaceFrameAtEnd(page, target, frame) ==
    Append(SelectSeq(page, LAMBDA n : n.id # target), frame)

\* part_000:269-278: the new frame takes the target's place, or is appended
PlaceFrame(page, target, frame) ==
    LET k == IF target = 0 THEN 0 ELSE IndexOfId(page, target)
    IN  IF k > 0
        THEN [page EXCEPT ![k] = [frame EXCEPT !.x = page[k].x, !.y = page[k].y]]
        ELSE Append(page, frame)

\* part_000:384-388: the loadFont calls in order, stopping at a throw
RECURSIVE LoadAll(_, _, _)
LoadAll(fonts, avail, loaded) ==
    IF fonts = << >> THEN [threw |-> FALSE, loaded |-> loaded]
    ELSE LET r == LoadFont(Head(fonts).family, Head(fonts).style, avail)
         IN  IF r.threw THEN [threw |-> TRUE, loaded |-> loaded]
             ELSE LoadAll(Tail(fonts), avail, loaded \cup {r.font})

PreloadFonts ==
    <<Font("Inter", "Regular"), Font("Inter", "Bold"), Font("Inter", "Italic"),
      Font("Inter", "Bold Italic"), Font("Roboto Mono", "Regular")>>

ProcessedStatus(n) == Status("Processed N Markdown files.", n, FALSE)

(***************************************************************************)
(* The frame-creating plugin: bounded documents                            *)
(***************************************************************************)
FrameNodeKinds ==
    {[name |-> NameUsage, type |-> "TEXT"],
     [name |-> NameNotesTxt, type |-> "RECTANGLE"]}

FramePages ==
    {[i \in 1..NumNodes |-> PageNode(i, k[i].name, k[i].type, 10 * i, 5, << >>)] :
        k \in [1..NumNodes -> FrameNodeKinds]}

\* a style the user has edited since the plugin made it
EditedStyle(name) == TextStyle(name, Font("Georgia", "Bold"), Pt(10), 100)

\* no text style yet, or the seven styles of an earlier run, edited
Registries == {<< >>, [k \in 1..Len(StyleKeys) |-> EditedStyle(StyleKeys[k])]}

\* every font loads; Inter loads in Regular only and Roboto Mono not at all;
\* Inter Regular does not load
FrameAvailChoices ==
    {AllFonts,
     {f \in AllFonts : f.family = "Georgia" \/ f = InterRegular},
     AllFonts \ {InterRegular}}

FrameInit ==
    /\ FlatIdle
    /\ segments = << >>
    /\ currentPage \in FramePages
    /\ selection = << >>
    /\ available \in FrameAvailChoices
    /\ loadedFonts = {}
    /\ uiFiles \in Batches
    /\ hPc = "off" /\ tasks = << >> /\ updatedCount = 0 /\ posted = << >>
    /\ requests = 0 /\ attempted = << >>
    /\ prev = [page |-> << >>, attempted |-> << >>]
    /\ styles \in Registries
    \* a font that does not load is met on one document, with no style yet
    /\ \/ available = AllFonts
       \/ /\ styles = << >>
          /\ \A i \in 1..NumNodes :
                currentPage[i].name = IF i = 1 THEN NameUsage ELSE NameNotesTxt
    /\ frPc = "idle" /\ frFile = 0 /\ frFound = << >>
    /\ calls = << >> /\ orphans = {} /\ nextId = NumNodes + 1
    /\ frBlocks = << >> /\ frFrame = 0

(***************************************************************************)
(* part_000: figma.ui.onmessage for an import-markdown-batch message       *)
(***************************************************************************)
\* part_000:375-381
FrameReceive ==
    /\ frPc \in {"idle", "done"}
    /\ requests < MaxRequests
    /\ requests' = requests + 1
    /\ prev' = [page |-> currentPage, attempted |-> attempted]
    /\ attempted' = << >>
    /\ updatedCount' = 0
    /\ frFile' = 0
    /\ IF Len(uiFiles) = 0
       THEN posted' = <<NoFilesStatus>> /\ frPc' = "done"
       ELSE posted' = << >> /\ frPc' = "preload"
    /\ UNCHANGED <<flatVars, callVars, segments, hostVars, hPc, tasks, styles, frFound,
                   calls, orphans, nextId, frBlocks, frFrame>>

\* part_000:384-391: a throw here leaves the handler with no catch around it
Preload ==
    /\ frPc = "preload"
    /\ LET r == LoadAll(PreloadFonts, available, loadedFonts)
       IN  /\ loadedFonts' = r.loaded
           /\ IF r.threw
              THEN frPc' = "rejected" /\ UNCHANGED <<frFound, frFile>>
              ELSE /\ frPc' = "loop"
                   /\ frFound' = FindAllNamed(currentPage)
                   /\ frFile' = 1
    /\ UNCHANGED <<flatVars, callVars, segments, currentPage, selection, available, uiFiles,
                   syncVars, styles, calls, orphans, nextId, frBlocks, frFrame>>

\* part_000:393-398 and 260-267: the next file; createMarkdownFrame runs up to
\* the await of its Promise.all
StartFile ==
    /\ frPc = "loop"
    /\ frFile <= Len(uiFiles)
    /\ LET s == StartCalls(styles, 1, << >>)
       IN  styles' = s.registry /\ calls' = s.calls
    /\ frPc' = "styles"
    /\ UNCHANGED <<flatVars, callVars, segments, hostVars, syncVars, frFile, frFound,
                   orphans, nextId, frBlocks, frFrame>>

\* a call whose promise has rejected makes Promise.all reject, and the catch
\* of the handler runs before any other font load resolves
Rejected == \E i \in 1..Len(calls) : calls[i].stage = "failed"

\* part_000:64-65 and 85-89 in one call: the font has loaded, the style is written
StyleLoaded(i) ==
    /\ frPc = "styles" /\ ~Rejected
    /\ calls[i].stage = "load"
    /\ ConfigFont(calls[i].name) \in available
    /\ LET w == WriteStyle(styles, calls[i].style, DEFAULT_STYLES(calls[i].name),
                           loadedFonts \cup {ConfigFont(calls[i].name)})
       IN  /\ styles' = w.registry
           /\ calls' = [calls EXCEPT ![i].stage = IF w.threw THEN "failed" ELSE "done"]
    /\ loadedFonts' = loadedFonts \cup {ConfigFont(calls[i].name)}
    /\ UNCHANGED <<flatVars, callVars, segments, currentPage, selection, available, uiFiles,
                   syncVars, frPc, frFile, frFound, orphans, nextId, frBlocks, frFrame>>

\* part_000:66-69: the load was rejected, the fallback load is started
StyleLoadFailed(i) ==
    /\ frPc = "styles" /\ ~Rejected
    /\ calls[i].stage = "load"
    /\ ConfigFont(calls[i].name) \notin available
    /\ calls' = [calls EXCEPT ![i].stage = "fallback"]
    /\ UNCHANGED <<flatVars, callVars, segments, hostVars, syncVars, styles, frPc, frFile,
                   frFound, orphans, nextId, frBlocks, frFrame>>

\* part_000:69-70 and 85-89: the fallback load settles, then the style is
\* written with the font of the config, which was never loaded
StyleFallback(i) ==
    /\ frPc = "styles" /\ ~Rejected
    /\ calls[i].stage = "fallback"
    /\ LET ok == InterRegular \in available
           loaded2 == IF ok THEN loadedFonts \cup {InterRegular} ELSE loadedFonts
           w == WriteStyle(styles, calls[i].style, DEFAULT_STYLES(calls[i].name),
                           loaded2)
       IN  /\ loadedFonts' = loaded2
           /\ styles' = IF ok THEN w.registry ELSE styles
           /\ calls' = [calls EXCEPT ![i].stage =
                           IF ok /\ ~w.threw THEN "done" ELSE "failed"]
    /\ UNCHANGED <<flatVars, callVars, segments, currentPage, selection, available, uiFiles,
                   syncVars, frPc, frFile, frFound, orphans, nextId, frBlocks, frFrame>>

\* part_000:269-289: every call of the Promise.all has returned; the frame is
\* created and placed
PlaceStep ==
    /\ frPc = "styles"
    /\ \A i \in 1..Len(calls) : calls[i].stage = "done"
    /\ LET file == uiFiles[frFile]
           frame == PageNode(nextId, NameNoExt(file.name), "FRAME", 0, 0, << >>)
       IN  /\ currentPage' = PlaceFrame(currentPage, FindTarget(frFound, file), frame)
           /\ frBlocks' = ParseMarkdownToBlocks(StripFrontMatter(file.content))
    /\ frFrame' = nextId
    /\ nextId' = nextId + 1
    /\ calls' = << >>
    /\ frPc' = "blocks"
    /\ UNCHANGED <<flatVars, callVars, segments, selection, available, loadedFonts, uiFiles,
                   syncVars, styles, frFile, frFound, orphans>>

\* part_000:291-368: one block; a throw is caught by the handler (400-402)
BlockStep ==
    /\ frPc = "blocks"
    /\ frBlocks # << >>
    /\ LET k == IndexOfId(currentPage, frFrame)
           r == BuildBlock(currentPage[k].children, styles, loadedFonts,
                           Head(frBlocks), available)
       IN  /\ currentPage' = [currentPage EXCEPT ![k].children = r.children]
           /\ styles' = r.registry
           /\ loadedFonts' = r.loaded
           /\ IF r.threw
              THEN /\ updatedCount' = CountAfter(updatedCount, TRUE)
                   /\ attempted' = Append(attempted,
                         [file |-> frFile,
                          node |-> FindTarget(frFound, uiFiles[frFile]),
                          ok |-> FALSE])
                   /\ frBlocks' = << >>
                   /\ frFile' = frFile + 1
                   /\ frPc' = "loop"
              ELSE /\ frBlocks' = Tail(frBlocks)
                   /\ UNCHANGED <<updatedCount, attempted, frFile, frPc>>
    /\ UNCHANGED <<flatVars, callVars, segments, selection, available, uiFiles, hPc, tasks,
                   posted, requests, prev, frFound, frFrame, calls, orphans, nextId>>

\* part_000:370 and 399: createMarkdownFrame returns, the file is counted
FileDone ==
    /\ frPc = "blocks"
    /\ frBlocks = << >>
    /\ updatedCount' = CountAfter(updatedCount, FALSE)
    /\ attempted' = Append(attempted,
          [file |-> frFile, node |-> FindTarget(frFound, uiFiles[frFile]),
           ok |-> TRUE])
    /\ frFile' = frFile + 1
    /\ frPc' = "loop"
    /\ UNCHANGED <<flatVars, callVars, segments, hostVars, hPc, tasks, posted, requests,
                   prev, styles, frFound, frBlocks, frFrame, calls, orphans, nextId>>

\* the calls left running when the Promise.all rejects and whose font loads:
\* each still writes its style when its load resolves.  A call whose font
\* does not load ends in a rejection nobody awaits, and changes nothing: its
\* fallback, Inter Regular, was loaded by the pre-load.
Orphaned(cs) ==
    {[name |-> cs[i].name, style |-> cs[i].style] :
        i \in {j \in 1..Len(cs) : /\ cs[j].stage = "load"
                                  /\ ConfigFont(cs[j].name) \in available}}

\* part_000:400-402: the catch of the handler; the loop goes on
CatchRejected ==
    /\ frPc = "styles"
    /\ Rejected
    /\ updatedCount' = CountAfter(updatedCount, TRUE)
    /\ attempted' = Append(attempted,
          [file |-> frFile, node |-> FindTarget(frFound, uiFiles[frFile]),
           ok |-> FALSE])
    /\ orphans' = orphans \cup Orphaned(calls)
    /\ calls' = << >>
    /\ frFile' = frFile + 1
    /\ frPc' = "loop"
    /\ UNCHANGED <<flatVars, callVars, segments, hostVars, hPc, tasks, posted, requests,
                   prev, styles, frFound, nextId, frBlocks, frFrame>>

\* part_000:85-89 in a call nobody awaits any more
OrphanLoaded(o) ==
    /\ o \in orphans
    /\ LET w == WriteStyle(styles, o.style, DEFAULT_STYLES(o.name),
                           loadedFonts \cup {ConfigFont(o.name)})
       IN  styles' = w.registry
    /\ loadedFonts' = loadedFonts \cup {ConfigFont(o.name)}
    /\ orphans' = orphans \ {o}
    /\ UNCHANGED <<flatVars, callVars, segments, currentPage, selection, available, uiFiles,
                   syncVars, frPc, frFile, frFound, calls, nextId, frBlocks, frFrame>>

\* part_000:405-409
FrameFinish ==
    /\ frPc = "loop"
    /\ frFile > Len(uiFiles)
    /\ posted' = Append(posted, ProcessedStatus(updatedCount))
    /\ frPc' = "done"
    /\ UNCHANGED <<flatVars, callVars, segments, hostVars, hPc, tasks, updatedCount,
                   requests, attempted, prev, styles, frFile, frFound, calls,
                   orphans, nextId, frBlocks, frFrame>>

FrameNext ==
    \/ FrameReceive
    \/ Preload
    \/ StartFile
    \/ \E i \in 1..Len(StyleKeys) : StyleLoaded(i)
    \/ \E i \in 1..Len(StyleKeys) : StyleLoadFailed(i)
    \/ \E i \in 1..Len(StyleKeys) : StyleFallback(i)
    \/ PlaceStep
    \/ BlockStep
    \/ FileDone
    \/ CatchRejected
    \/ \E o \in orphans : OrphanLoaded(o)
    \/ FrameFinish

SpecFrame == FrameInit /\ [][FrameNext]_vars

\* both plugins: a behaviour is a run of one of them
SpecPlugins == (SyncInit \/ FrameInit) /\ [][SyncNext \/ FrameNext]_vars



(***************************************************************************)
(* Properties of the text-replacement plugin                               *)
(***************************************************************************)
Ended == hPc = "done" /\ Len(uiFiles) > 0

NodeIds == 1..Len(currentPage)

AttemptedPairs(att) == {<<att[i].file, att[i].node>> : i \in 1..Len(att)}
AttemptedNodes(att) == {att[i].node : i \in 1..Len(att)}
OkCount(att) == Cardinality({i \in 1..Len(att) : att[i].ok})

\* the node's name is the file's name, or the file's name is the node's name
\* followed by .md, .markdown or .txt in any letter case
NamedFor(nodeName, fileName) ==
    \/ nodeName = fileName
    \/ \E sfx \in Suffixes :
          /\ Len(fileName) = Len(nodeName) + Len(sfx)
          /\ SubSeq(fileName, 1, Len(nodeName)) = nodeName
          /\ Lower(SubSeq(fileName, Len(nodeName) + 1, Len(fileName))) = sfx

NamePairs ==
    {<<f, n>> \in (1..Len(uiFiles)) \X NodeIds :
        currentPage[n].type = "TEXT"
        /\ NamedFor(currentPage[n].name, uiFiles[f].name)}

SelectedText == {n \in NodeIds : \E i \in 1..Len(selection) :
                    selection[i] = n /\ currentPage[n].type = "TEXT"}

NameDirected == Len(uiFiles) > 1 \/ SelectedText = {}

UsageNotesExample ==
    /\ Len(uiFiles) = 2 /\ Len(currentPage) = 2
    /\ uiFiles[1].name = NameUsageMd /\ uiFiles[2].name = NameNotesTxt
    /\ currentPage[1].name = NameUsage /\ currentPage[1].type = "TEXT"
    /\ currentPage[2].name = NameNotesTxt /\ currentPage[2].type = "TEXT"

\* the frame-creating plugin has answered a batch that held files
FrameEnded == frPc = "done" /\ Len(uiFiles) > 0

\* the named nodes the page held when the batch began, by id
NamedAtStart(f) ==
    {k \in 1..Len(frFound) : NamedFor(frFound[k].name, uiFiles[f].name)}

FrameExample ==
    /\ Len(uiFiles) = 2 /\ Len(frFound) = 2
    /\ uiFiles[1].name = NameUsageMd /\ uiFiles[2].name = NameNotesTxt
    /\ frFound[1].name = NameUsage /\ frFound[2].name = NameNotesTxt

\* the text-replacement plugin pairs each file, once, with every text node
\* named as the file or as the file without its suffix, and with no other
SyncPairsAreNamePairs ==
    (Ended /\ NameDirected) =>
        /\ AttemptedPairs(attempted) = NamePairs
        /\ Len(attempted) = Cardinality(NamePairs)
        /\ (UsageNotesExample /\ OkCount(attempted) = Len(attempted)) =>
              /\ updatedCount = 2
              /\ posted = <<UpdatedStatus(2)>>

\* C3: under name-directed matching each file is paired with every element
\* named as the file or as the file without its suffix, and with no other
\* element (both plugins); Usage.md and Notes.txt against elements Usage and
\* Notes.txt give two successes
C3_EveryMatchPaired ==
    /\ SyncPairsAreNamePairs
    /\ FrameEnded =>
          \A f \in 1..Len(uiFiles) :
              {attempted[i].node : i \in {j \in 1..Len(attempted) :
                                            attempted[j].file = f}} \ {0}
                = {frFound[k].id : k \in NamedAtStart(f)}

\* what the two handlers do: the text-replacement plugin pairs a file with
\* every text node so named; the frame-creating plugin pairs it with one
\* element only, the first so named in the scan of the page made when the
\* batch begins, or with none
PairsAsCoded ==
    /\ SyncPairsAreNamePairs
    /\ FrameEnded =>
          /\ Len(attempted) = Len(uiFiles)
          /\ \A f \in 1..Len(uiFiles) :
                /\ attempted[f].file = f
                /\ IF NamedAtStart(f) = {}
                   THEN attempted[f].node = 0
                   ELSE \E k \in NamedAtStart(f) :
                           /\ attempted[f].node = frFound[k].id
                           /\ \A m \in NamedAtStart(f) : k <= m
          /\ (FrameExample /\ OkCount(attempted) = Len(attempted)) =>
                /\ updatedCount = 2
                /\ posted = <<ProcessedStatus(2)>>

Pairs(att) == [i \in 1..Len(att) |-> Task(att[i].file, att[i].node)]

\* C5: a call that throws does not stop the batch: every task of the batch is
\* attempted, in order, and the count posted at the end is the number of
\* calls that did not throw (both plugins)
C5_BatchContinues ==
    /\ (hPc = "running" \/ Ended) =>
          /\ Pairs(attempted) \o tasks = TasksOf(uiFiles, currentPage, selection)
          /\ updatedCount = OkCount(attempted)
    /\ Ended =>
          /\ tasks = << >>
          /\ posted = <<FinalStatus(OkCount(attempted))>>
    /\ frPc \in {"loop", "styles", "blocks"} =>
          /\ Len(attempted) = frFile - 1
          /\ \A f \in 1..Len(attempted) : attempted[f].file = f
          /\ updatedCount = OkCount(attempted)
    /\ FrameEnded =>
          /\ Len(attempted) = Len(uiFiles)
          /\ \A f \in 1..Len(attempted) : attempted[f].file = f
          /\ posted = <<ProcessedStatus(OkCount(attempted))>>

\* a call threw and a later call of the same batch went through
C5_Witness ==
    /\ Ended
    /\ \E i \in 1..Len(attempted) : \E j \in 1..Len(attempted) :
          i < j /\ ~attempted[i].ok /\ attempted[j].ok
    /\ updatedCount = 1

\* C6: a batch whose targets all failed is reported differently from a batch
\* that matched no target
C6_NoMatchDistinctFromAllFailed ==
    (Ended /\ updatedCount = 0 /\ Len(attempted) > 0) =>
        posted # <<NoMatchStatus>>

\* the batch called the update of node n once, and the call did not throw
ImportedOnce(att, n) ==
    Cardinality({i \in 1..Len(att) : att[i].node = n}) = 1
    /\ \A i \in 1..Len(att) : att[i].node = n => att[i].ok

Styled(node) ==
    [characters |-> node.characters, fonts |-> node.fonts, sizes |-> node.sizes]

\* C2: a second import of the same files leaves every node that both imports
\* updated with the text, fonts and sizes it had after the first
C2_SecondImportSame ==
    (Ended /\ requests >= 2) =>
        \A n \in NodeIds :
            (ImportedOnce(attempted, n) /\ ImportedOnce(prev.attempted, n)) =>
                Styled(currentPage[n]) = Styled(prev.page[n])


(***************************************************************************)
(* Properties of the frame-creating plugin and of font resolution          *)
(***************************************************************************)
\* C7: a handler run that has ended has posted exactly one status message,
\* and no run posts more than one
C7_OneStatusPerRequest ==
    /\ Len(posted) <= 1
    /\ (hPc = "done" \/ frPc \in {"done", "rejected"}) => Len(posted) = 1

StylesNamed(registry, name) ==
    {i \in 1..Len(registry) : registry[i].name = name}

\* C8: the registry never holds two styles of one Markdown style name
C8_OneStylePerName ==
    \A name \in STYLE_NAMES : Cardinality(StylesNamed(styles, name)) <= 1

\* a second run, on a document that held the seven styles when it began, has
\* been through the Promise.all of each of its two files
C8_Witness ==
    /\ frPc = "done" /\ requests = 2 /\ updatedCount = 2
    /\ \A name \in STYLE_NAMES : Cardinality(StylesNamed(styles, name)) = 1

\* the font the contract names: the one asked for, else the default family in
\* the same weight, else the default family's regular weight
ContractFont(asked, avail) ==
    IF asked \in avail THEN asked
    ELSE IF Font("Inter", asked.style) \in avail THEN Font("Inter", asked.style)
    ELSE InterRegular

\* C9: resolving a font never raises, and gives the font asked for, else the
\* default family's font of that weight, else the default family's regular
C9_ResolutionNeverRaises ==
    fFont.fn # "none" =>
        /\ ~fFont.threw
        /\ fFont.font = ContractFont(fFont.asked, available)


(***************************************************************************)
(* The frame-creating plugin: where the new frame goes                      *)
(***************************************************************************)
\* the positions of page that hold the node with that id
PositionsOf(page, id) == {i \in 1..Len(page) : page[i].id = id}

\* the step of createMarkdownFrame that creates and places the frame
Placing == frPc = "styles" /\ frPc' = "blocks"

\* the old element at position k gave its place and position to the new frame
Replaced(k) ==
    /\ Len(currentPage') = Len(currentPage)
    /\ currentPage'[k].id = frFrame'
    /\ currentPage'[k].type = "FRAME"
    /\ currentPage'[k].x = currentPage[k].x /\ currentPage'[k].y = currentPage[k].y
    /\ \A i \in 1..Len(currentPage) : i # k => currentPage'[i] = currentPage[i]
    /\ PositionsOf(currentPage', currentPage[k].id) = {}

\* one frame more, after the children there were, none of which is removed
Added ==
    /\ Len(currentPage') = Len(currentPage) + 1
    /\ SubSeq(currentPage', 1, Len(currentPage)) = currentPage
    /\ currentPage'[Len(currentPage')].id = frFrame'
    /\ currentPage'[Len(currentPage')].type = "FRAME"

C16_WitnessAdded ==
    /\ frPc = "blocks"
    /\ requests = 1
    /\ FindTarget(frFound, uiFiles[frFile]) = 0
    /\ Len(currentPage) = Len(prev.page) + 1
    /\ currentPage[Len(currentPage)].id = frFrame


(***************************************************************************)
(* code.ts: two import-markdown-batch messages in flight.  The panel       *)
(* enables the import button again when files are dropped (ui.ts:141-144), *)
(* also while an import runs, so a second message can reach the handler    *)
(* while the first waits at the awaits of lines 138-152.  Each call of     *)
(* updateTextNodeWithMarkdown runs from its start to its first await in    *)
(* one step, and from its last await to its end in another; `segments` is  *)
(* the one module-level list both calls use.                               *)
(***************************************************************************)
MaxInFlight == 2

RaceSources == {MdPara, MdHead, MdCode, MdTitle}

\* the locals of one call of updateTextNodeWithMarkdown; own is what the call
\* flattened, used what its range loop read
Invocation(pc, target, fullText, baseFont, own, used, instr, threw) ==
    [pc |-> pc, target |-> target, fullText |-> fullText, baseFont |-> baseFont,
     own |-> own, used |-> used, instr |-> instr, threw |-> threw]

NotCalled == Invocation("idle", 0, << >>, InterRegular, << >>, << >>, << >>, FALSE)

RaceInit ==
    /\ fTokens = << >> /\ fContext = RootContext /\ fPc = "off"
    /\ fSegs = << >> /\ fInstr = << >> /\ fBase = ""
    /\ fFont = FontRequest(InterRegular)
    /\ fNode = TextNode(<< >>, "TEXT", InterRegular, Pt(16))
    /\ fCalls = << >> /\ fStrip = StripRequest(<< >>)
    /\ inv = [h \in 1..MaxInFlight |-> NotCalled]
    /\ uiPanel = PanelIdle
    /\ segments = << >>
    /\ currentPage = [i \in 1..NumNodes |->
                        TextNode(NameUsage, "TEXT", InterRegular, Pt(16))]
    /\ selection = << >>
    /\ available = AllFonts /\ loadedFonts = {}
    /\ uiFiles = << >>
    /\ hPc = "off" /\ tasks = << >> /\ updatedCount = 0 /\ posted = << >>
    /\ requests = 0 /\ attempted = << >>
    /\ prev = [page |-> << >>, attempted |-> << >>]
    /\ styles = << >> /\ frPc = "off" /\ frFile = 0 /\ frFound = << >>
    /\ calls = << >> /\ orphans = {} /\ nextId = 1
    /\ frBlocks = << >> /\ frFrame = 0

\* code.ts:108-138: strip, lex, reset and fill `segments`, build the text,
\* read the base font, and wait for the first font
BeginUpdate(h) ==
    /\ inv[h].pc = "idle"
    /\ \E markdown \in RaceSources, target \in 1..NumNodes :
         LET tokens == Lexer(StripFrontMatter(markdown))
             segs == ProcessTokens(tokens, RootContext, ResetSegments(segments))
         IN  /\ segments' = segs
             /\ inv' = [inv EXCEPT ![h] =
                          Invocation("awaiting", target, Concat(segs),
                                     BaseFontOf(currentPage[target]), segs,
                                     << >>, << >>, FALSE)]
    /\ UNCHANGED <<flatVars, fCalls, fStrip, uiPanel, hostVars, syncVars, frameVars>>

\* code.ts:138-198: the fonts are loaded; the text is written and the range
\* loop runs over `segments` as it is now
ResumeUpdate(h) ==
    /\ inv[h].pc = "awaiting"
    /\ LET v == VariantFonts(inv[h].baseFont, available)
           node == currentPage[inv[h].target]
           st == ApplyStyles([node |-> SetCharacters(node, inv[h].fullText),
                              instr |-> << >>, threw |-> FALSE],
                             segments, v, 0)
       IN  /\ currentPage' = [currentPage EXCEPT ![inv[h].target] = st.node]
           /\ loadedFonts' = loadedFonts \cup VariantSet(v)
           /\ inv' = [inv EXCEPT ![h].pc = "done", ![h].used = segments,
                                 ![h].instr = st.instr, ![h].threw = st.threw]
    /\ UNCHANGED <<flatVars, fCalls, fStrip, uiPanel, segments, selection, available, uiFiles,
                   syncVars, frameVars>>

RaceNext == \E h \in 1..MaxInFlight : BeginUpdate(h) \/ ResumeUpdate(h)

SpecRace == RaceInit /\ [][RaceNext]_vars

\* the call of handler h ran with no other call beginning during its awaits
Undisturbed(h) == inv[h].pc = "done" /\ inv[h].used = inv[h].own

\* a call that no other call disturbed styles the text it wrote with its own
\* segments: its ranges tile that text
UndisturbedTiles ==
    \A h \in 1..MaxInFlight :
       Undisturbed(h) => ~inv[h].threw /\ Tiles(inv[h].instr, Len(inv[h].fullText))

\* C17: with two import-markdown-batch messages interleaved at their awaits,
\* the segments used to style a node are the ones flattened from the markdown
\* written to that node: no range ends beyond the text, and the ranges tile it
C17_SegmentsOfOwnMarkdown ==
    \A h \in 1..MaxInFlight :
       inv[h].pc = "done" =>
          /\ inv[h].used = inv[h].own
          /\ ~inv[h].threw
          /\ Tiles(inv[h].instr, Len(inv[h].fullText))

\* a range loop that reached past the end of the text it had written
RangePastText ==
    \E h \in 1..MaxInFlight : inv[h].pc = "done" /\ inv[h].threw


(***************************************************************************)
(* The frame-creating plugin: files of one batch that share a base name    *)
(***************************************************************************)
\* the frames on the page that bear the base name of file f
FramesNamedFor(f) ==
    {i \in 1..Len(currentPage) :
        /\ currentPage[i].type = "FRAME"
        /\ currentPage[i].name = NameNoExt(uiFiles[f].name)}

\* a file was handed, as its target, an element that an earlier file of the
\* batch had replaced
StaleTarget ==
    \E i \in 1..Len(attempted), j \in 1..Len(attempted) :
       /\ i < j
       /\ attempted[i].ok
       /\ attempted[j].node # 0
       /\ attempted[j].node = attempted[i].node

SharedBaseName ==
    \E f \in 1..Len(uiFiles), g \in 1..Len(uiFiles) :
       f # g /\ NameNoExt(uiFiles[f].name) = NameNoExt(uiFiles[g].name)

OneFramePerFile ==
    \A f \in 1..Len(uiFiles) : Cardinality(FramesNamedFor(f)) <= 1

\* C19: no file of a batch is imported onto an element that an earlier file of
\* the same batch removed, and after a batch the page holds at most one frame
\* of each file's base name, also when two files share that name
C19_NoStaleTarget ==
    FrameEnded => ~StaleTarget /\ OneFramePerFile

\* batches whose files have different base names leave one frame per name
DistinctNamesOneFrame ==
    (FrameEnded /\ ~SharedBaseName) => ~StaleTarget /\ OneFramePerFile

(***************************************************************************)
(* The frame-creating plugin: styles that exist when they are asked for    *)
(***************************************************************************)
\* style i is as figma.createTextStyle() made it: its defaults are yet to be
\* written
JustCreated(i) == styles[i] = NewTextStyle(styles[i].name)

\* C20: a style that exists under the requested name is reused as it is: its
\* font, size and line height are left unchanged, so a user's edits survive;
\* defaults are written to a style that was just created, and to no other
C20_ExistingStyleKept ==
    [][\A i \in 1..Len(styles) : styles'[i] # styles[i] => JustCreated(i)]_vars

\* the styles that exist stay, under their names and in their places
ExistingStyleReused ==
    [][/\ Len(styles) <= Len(styles')
       /\ \A i \in 1..Len(styles) : styles'[i].name = styles[i].name]_vars

\* an edited style has been reset to the defaults of its name while the
\* others are still as the user left them
EditedStyleReset ==
    /\ Len(styles) = Len(StyleKeys)
    /\ styles[1] = TextStyle(H1, Font("Inter", "Bold"), Pt(32), 120)
    /\ styles[Len(styles)] = EditedStyle(StyleKeys[Len(StyleKeys)])

(***************************************************************************)
(* ui.ts: the panel.  Files are dropped, their reads complete, the import  *)
(* button is clicked, the plugin answers and its status message arrives,   *)
(* in any order the event loop allows.  A disabled button receives no      *)
(* click (host behaviour).                                                 *)
(***************************************************************************)
MaxDrops == 3

\* a read that fails (reader.onerror, ui.ts:95)
ReadFails == -1

\* seq without its k-th element
RemoveAt(seq, k) == SubSeq(seq, 1, k - 1) \o SubSeq(seq, k + 1, Len(seq))

PanelInit ==
    /\ fTokens = << >> /\ fContext = RootContext /\ fPc = "off"
    /\ fSegs = << >> /\ fInstr = << >> /\ fBase = ""
    /\ fFont = FontRequest(InterRegular)
    /\ fNode = TextNode(<< >>, "TEXT", InterRegular, Pt(16))
    /\ fCalls = << >> /\ fStrip = StripRequest(<< >>) /\ inv = << >>
    \* the button's markup is not part of the script: enabled or disabled
    /\ uiPanel \in {[PanelIdle EXCEPT !.disabled = d] : d \in BOOLEAN}
    /\ segments = << >>
    /\ currentPage = << >> /\ selection = << >>
    /\ available = AllFonts /\ loadedFonts = {}
    /\ uiFiles = << >>
    /\ hPc = "off" /\ tasks = << >> /\ updatedCount = 0 /\ posted = << >>
    /\ requests = 0 /\ attempted = << >>
    /\ prev = [page |-> << >>, attempted |-> << >>]
    /\ styles = << >> /\ frPc = "off" /\ frFile = 0 /\ frFound = << >>
    /\ calls = << >> /\ orphans = {} /\ nextId = 1
    /\ frBlocks = << >> /\ frFrame = 0

PanelStep ==
    UNCHANGED <<flatVars, fCalls, fStrip, inv, segments, hostVars, syncVars,
                frameVars>>

\* ui.ts:100-113: handleFiles up to its await; the reads will give `valid`
\* files with content, or fail
DropFiles ==
    /\ uiPanel.drops < MaxDrops
    /\ \E valid \in {ReadFails} \cup (0..MaxFiles) :
         uiPanel' = [uiPanel EXCEPT !.files = 0, !.disabled = TRUE,
                                    !.reading = Append(@, valid),
                                    !.drops = @ + 1]
    /\ PanelStep

\* ui.ts:113-152: the reads of one handleFiles call are over
ReadsDone ==
    /\ \E k \in 1..Len(uiPanel.reading) :
         LET valid == uiPanel.reading[k]
             rest == [uiPanel EXCEPT !.reading = RemoveAt(@, k)]
         IN  uiPanel' =
               IF valid = ReadFails THEN rest
               ELSE IF valid = 0 THEN [rest EXCEPT !.files = 0]
               ELSE [rest EXCEPT !.files = valid, !.disabled = FALSE]
    /\ PanelStep

\* ui.ts:156-170: a click that sends; with no file the handler returns at once
ClickImport ==
    /\ ~uiPanel.disabled
    /\ uiPanel.files > 0
    /\ uiPanel.sent < MaxRequests
    /\ uiPanel' = [uiPanel EXCEPT !.disabled = TRUE, !.sent = @ + 1,
                                  !.pending = @ + 1]
    /\ PanelStep

\* code.ts:203-270: the plugin posts the status message of one request
PluginAnswers ==
    /\ uiPanel.pending > 0
    /\ uiPanel' = [uiPanel EXCEPT !.pending = @ - 1, !.replies = @ + 1]
    /\ PanelStep

\* ui.ts:173-183: window.onmessage
StatusArrives ==
    /\ uiPanel.replies > 0
    /\ uiPanel' = [uiPanel EXCEPT !.replies = @ - 1, !.disabled = FALSE]
    /\ PanelStep

PanelNext ==
    DropFiles \/ ReadsDone \/ ClickImport \/ PluginAnswers \/ StatusArrives

SpecPanel == PanelInit /\ [][PanelNext]_vars

\* the requests sent whose status message has not arrived
Outstanding == uiPanel.pending + uiPanel.replies

\* C21: at most one import-markdown-batch request is outstanding at any time:
\* once the button has sent a request no second one is sent before a status
\* message arrives, however drops, read completions, clicks and replies
\* interleave
C21_OneRequestOutstanding == Outstanding <= 1

\* as long as no file is dropped after the first drop, one request at most is
\* outstanding
OneDropOneOutstanding == uiPanel.drops <= 1 => Outstanding <= 1

\* the button is enabled while a request is outstanding
EnabledWhileOutstanding ==
    Outstanding = 1 /\ ~uiPanel.disabled /\ uiPanel.files > 0

====
